---- MODULE Spec2Model ----
(***************************************************************************)
(* County healthcare pipeline: discovery navigation (scraper_discovery.py),*)
(* content extraction (scraper_extract.py), per-county structuring/merge   *)
(* (scraper_structure.py, run_pipeline.py) and CSV emission (scraper.py).  *)
(*                                                                         *)
(* Python strings are sequences of tokens.  A token is either one          *)
(* punctuation character ("/", ":", ".", " ", ...) or an alphanumeric atom *)
(* ("www", "health", ...).  Atoms are chosen so that no keyword of the     *)
(* source straddles an atom boundary, hence substring, prefix and suffix   *)
(* tests on token sequences agree with the tests on characters.            *)
(***************************************************************************)
EXTENDS Integers, Sequences, FiniteSets, TLC

VARIABLES
    \* ---- discovery (run_discovery_for_county) ----
    pc,             \* position inside run_discovery_for_county
    county_name,    \* argument county_name
    county_root_url,\* argument county_root_url
    result,         \* the DiscoveryRecord being built
    dept,           \* local variable dept
    mch,            \* local variable mch
    fetched,        \* history: the fetch_soup calls made so far, [url, ok]
    links,          \* collect_program_links' local links (None before step 3)
    \* ---- link selection alone (choose_best_link) ----
    cb_links,       \* argument links
    cb_base,        \* argument base_url
    cb_level,       \* argument level
    cb_best,        \* the value returned, once cb_pc = "returned"
    cb_pc,
    \* ---- one link alone (score_link, is_same_domain) ----
    lk_base,        \* argument base_url of is_same_domain
    lk_href,        \* argument href of score_link, candidate_url of is_same_domain
    lk_text,        \* argument text
    lk_level,       \* argument level
    lk_score,       \* the value score_link returned, once "score" \in lk_pc
    lk_same,        \* the value is_same_domain returned, once "same" \in lk_pc
    lk_pc,          \* the calls that have returned
    \* ---- one fetch alone (fetch_soup) ----
    ft_fn,          \* the module whose fetch_soup is called
    ft_get,         \* what requests.get and the parser do on this call
    ft_ret,         \* what the call gave its caller, once ft_pc = "returned"
    ft_pc,
    \* ---- content extraction (scraper_extract.main) ----
    xpc,            \* position inside main
    candidates,     \* the (county, program) pairs of the discovery file, in order
    xi,             \* index of the candidate the loop is at
    raw_files,      \* the raw-page files on disk: path -> record
    x_log,          \* history: url, fetch and result of each candidate handled
    \* ---- the truncation of a page text alone (extract_text, lines 67-68) ----
    tx_text,        \* the text handed to the truncation
    tx_out,         \* the text it gives, once tx_pc # "called"
    tx_again,       \* what the truncation makes of tx_out, once tx_pc = "again"
    tx_pc,
    \* ---- collect_pdf_links alone ----
    pd_soup,        \* argument soup
    pd_base,        \* argument base_url
    pd_out,         \* the list returned, once pd_pc = "returned"
    pd_pc,
    \* ---- collect_program_links alone ----
    cp_soup,        \* what fetch_soup gives for the seed page
    cp_seed,        \* argument seed_url
    cp_out,         \* the list returned, once cp_pc = "returned"
    cp_pc,
    \* ---- the raw directory of one county (run_pipeline.py) ----
    dr_county,      \* the county's name in the discovery results
    dr_store,       \* the raw-page files Phase 2 has written: path -> record
    dr_dir,         \* the directory run_phase_3 looks in, None before
    dr_read,        \* the paths run_phase_3 reads
    dr_pc,
    \* ---- the single-pass scraper (scraper.py main) ----
    sm_pc,          \* position inside main
    sm_counties,    \* counties_to_process
    sm_i,           \* index of the county the loop is at
    sm_results,     \* local variable results
    sm_successful,  \* local variable successful
    sm_failed,      \* local variable failed
    sm_trace,       \* history: the network calls and sleeps made, in order
    sm_csv,         \* the rows of OUTPUT_FILE, None while it is not written
    \* ---- the control flow and the console of the phase mains ----
    ph_main,        \* which main runs
    ph_disc,        \* the state of the discovery file on disk
    ph_items,       \* what the loop goes through, in order
    ph_i,           \* index of the item the loop is at
    ph_pc,          \* position inside the main
    ph_console,     \* history: the lines printed, each with the item it is about
    ph_calls,       \* history: number of page fetches and collaborator calls made
    ph_records,     \* number of raw pages saved or results merged
    ph_written,     \* whether the CSV files have been written
    \* ---- structuring (scraper_structure.main / run_phase_3) ----
    driver,         \* which of the two structuring loops runs
    spc,            \* position inside the structuring loop
    files,          \* the raw page files, in processing order
    fi,             \* index of the file the loop is at
    county_to_data, \* the per-county accumulators (dict keyed by county name)
    order,          \* insertion order of the keys of county_to_data
    returned,       \* history: the collaborator outcomes handled, <<county, result>>
    csv_files       \* written CSV files: filename -> rows

vars == <<pc, county_name, county_root_url, result, dept, mch, fetched, links,
          cb_links, cb_base, cb_level, cb_best, cb_pc,
          lk_base, lk_href, lk_text, lk_level, lk_score, lk_same, lk_pc,
          ft_fn, ft_get, ft_ret, ft_pc,
          xpc, candidates, xi, raw_files, x_log,
          tx_text, tx_out, tx_again, tx_pc,
          pd_soup, pd_base, pd_out, pd_pc,
          cp_soup, cp_seed, cp_out, cp_pc,
          dr_county, dr_store, dr_dir, dr_read, dr_pc,
          sm_pc, sm_counties, sm_i, sm_results, sm_successful, sm_failed, sm_trace, sm_csv,
          ph_main, ph_disc, ph_items, ph_i, ph_pc, ph_console, ph_calls, ph_records, ph_written,
          driver, spc, files, fi, county_to_data, order, returned, csv_files>>

discoveryVars == <<pc, county_name, county_root_url, result, dept, mch, fetched, links>>
chooseVars == <<cb_links, cb_base, cb_level, cb_best, cb_pc>>
linkVars == <<lk_base, lk_href, lk_text, lk_level, lk_score, lk_same, lk_pc>>
fetchVars == <<ft_fn, ft_get, ft_ret, ft_pc>>
extractVars == <<xpc, candidates, xi, raw_files, x_log>>
textVars == <<tx_text, tx_out, tx_again, tx_pc>>
pdfVars == <<pd_soup, pd_base, pd_out, pd_pc>>
collectVars == <<cp_soup, cp_seed, cp_out, cp_pc>>
dirVars == <<dr_county, dr_store, dr_dir, dr_read, dr_pc>>
phaseVars == <<ph_main, ph_disc, ph_items, ph_i, ph_pc, ph_console, ph_calls, ph_records, ph_written>>
scraperVars == <<sm_pc, sm_counties, sm_i, sm_results, sm_successful, sm_failed, sm_trace, sm_csv>>
structureVars == <<driver, spc, files, fi, county_to_data, order, returned, csv_files>>

-----------------------------------------------------------------------------
(* Bounds of the model *)

\* longest page built from arbitrary anchors of the pool (discovery workflow)
MaxAnchors == 2
\* longest link list handed to choose_best_link alone
MaxChoose == 3
\* the generated link-list pages hold up to MaxLinks + OverCap anchors
OverCap == 2
\* number of raw pages handed to the structuring loop
MaxFiles == 3
\* number of candidate pages handed to the extraction loop
MaxPages == 3
\* text lengths are taken up to TextOver around 0, the budget, and the budget
\* less the marker
TextOver == 2
\* the generated pdf pages hold up to 20 + PdfOver distinct pdf urls
PdfOver == 2
\* number of counties handed to the single-pass scraper
MaxCounties == 3
\* longest seed page built from arbitrary anchors handed to
\* collect_program_links alone
MaxCollect == 3
\* number of items handed to a phase main's loop
MaxItems == 3

-----------------------------------------------------------------------------
(* Python values *)

\* Python None where a string is expected; no string of the model equals it
None == <<"<None>">>

\* Python truthiness of an Optional[str]
Truthy(x) == x # None /\ x # <<>>

\* str.lower on one atom
Lower(tok) ==
    CASE tok = "Public" -> "public"
      [] tok = "Health" -> "health"
      [] tok = "Department" -> "department"
      [] tok = "Contact" -> "contact"
      [] tok = "Us" -> "us"
      [] tok = "WIC" -> "wic"
      [] tok = "MCAH" -> "mcah"
      [] tok = "Perinatal" -> "perinatal"
      [] tok = "Black" -> "black"
      [] tok = "Infant" -> "infant"
      [] tok = "Facebook" -> "facebook"
      [] tok = "Program" -> "program"
      [] tok = "Alameda" -> "alameda"
      [] tok = "San" -> "san"
      [] tok = "Francisco" -> "francisco"
      [] tok = "Brochure" -> "brochure"
      [] tok = "PDF" -> "pdf"
      [] tok = "Apply" -> "apply"
      [] tok = "A" -> "a"
      [] tok = "B" -> "b"
      [] tok = "C" -> "c"
      [] tok = "D" -> "d"
      [] tok = "E" -> "e"
      [] tok = "F" -> "f"
      [] tok = "G" -> "g"
      [] tok = "H" -> "h"
      [] tok = "I" -> "i"
      [] tok = "J" -> "j"
      [] tok = "K" -> "k"
      [] tok = "L" -> "l"
      [] tok = "M" -> "m"
      [] tok = "N" -> "n"
      [] tok = "O" -> "o"
      [] tok = "P" -> "p"
      [] tok = "Q" -> "q"
      [] tok = "R" -> "r"
      [] tok = "S" -> "s"
      [] tok = "T" -> "t"
      [] tok = "U" -> "u"
      [] tok = "V" -> "v"
      [] tok = "W" -> "w"
      [] tok = "X" -> "x"
      [] tok = "Y" -> "y"
      [] tok = "Z" -> "z"
      [] OTHER -> tok

\* str.lower
lower(s) == [i \in 1..Len(s) |-> Lower(s[i])]

\* the Python test  w in s
Contains(w, s) ==
    \E i \in 0..(Len(s) - Len(w)) : SubSeq(s, i + 1, i + Len(w)) = w

\* s.startswith(p)
StartsWith(s, p) == Len(s) >= Len(p) /\ SubSeq(s, 1, Len(p)) = p

\* s.endswith(p)
EndsWith(s, p) == Len(s) >= Len(p) /\ SubSeq(s, Len(s) - Len(p) + 1, Len(s)) = p

\* index, from i on, of the first element of s that is in stops, or Len(s) + 1
RECURSIVE FirstIn(_, _, _)
FirstIn(s, stops, i) ==
    IF i > Len(s) \/ s[i] \in stops THEN i ELSE FirstIn(s, stops, i + 1)

-----------------------------------------------------------------------------
(* urllib.parse *)

\* urlparse(url).scheme : the atoms before the first ":" when no "/", "?" or
\* "#" precedes it
UrlScheme(url) ==
    LET k == FirstIn(url, {":", "/", "?", "#"}, 1)
    IN  IF k <= Len(url) /\ url[k] = ":" /\ k > 1 THEN SubSeq(url, 1, k - 1) ELSE <<>>

\* the url without "scheme:"
UrlRest(url) ==
    IF UrlScheme(url) = <<>> THEN url
    ELSE SubSeq(url, Len(UrlScheme(url)) + 2, Len(url))

\* urlparse(url).netloc : after "//", up to the next "/", "?" or "#"
UrlNetloc(url) ==
    LET r == UrlRest(url)
    IN  IF StartsWith(r, <<"/", "/">>)
        THEN SubSeq(r, 3, FirstIn(r, {"/", "?", "#"}, 3) - 1)
        ELSE <<>>

\* the url from its path on (path, query and fragment)
UrlFromPath(url) ==
    LET r == UrlRest(url)
    IN  IF StartsWith(r, <<"/", "/">>)
        THEN SubSeq(r, FirstIn(r, {"/", "?", "#"}, 3), Len(r))
        ELSE r

\* the directory part of a path: up to and including its last "/"
RECURSIVE LastSlash(_, _)
LastSlash(path, i) ==
    IF i = 0 \/ path[i] = "/" THEN i ELSE LastSlash(path, i - 1)

\* urljoin(base, href) for an absolute http(s) base
urljoin(base, href) ==
    LET origin == UrlScheme(base) \o <<":", "/", "/">> \o UrlNetloc(base)
        bpath  == LET p == UrlFromPath(base)
                  IN  SubSeq(p, 1, FirstIn(p, {"?", "#"}, 1) - 1)
    IN  IF href = <<>> THEN base
        ELSE IF UrlScheme(href) # <<>> THEN href
        ELSE IF StartsWith(href, <<"/", "/">>) THEN UrlScheme(base) \o <<":">> \o href
        ELSE IF href[1] = "/" THEN origin \o href
        ELSE IF href[1] = "#" THEN origin \o bpath \o href
        ELSE origin \o SubSeq(bpath, 1, LastSlash(bpath, Len(bpath))) \o href

-----------------------------------------------------------------------------
(* scraper_discovery.py : configuration *)

Alameda == <<"Alameda">>
SanFrancisco == <<"San", " ", "Francisco">>

HTTPS == <<"http", "s", ":", "/", "/">>

\* the county directory (two of its 58 entries)
CALIFORNIA_COUNTIES ==
    (Alameda :> (HTTPS \o <<"www", ".", "acgov", ".", "org", "/">>)) @@
    (SanFrancisco :> (HTTPS \o <<"sf", ".", "gov", "/">>))

DEPT_KEYWORDS == <<
    <<"health", " ", "department">>, <<"health", " ", "services">>,
    <<"public", " ", "health">>,
    <<"health", " ", "and", " ", "human", " ", "services">>,
    <<"hhs">>, <<"hhs", "a">>,
    <<"department", " ", "of", " ", "public", " ", "health">> >>

SECTION_KEYWORDS == <<
    <<"maternal", " ", "health">>, <<"maternal", " ", "child", " ", "health">>,
    <<"mch">>, <<"mcah">>,
    <<"women", "'", "s", " ", "health">>, <<"family", " ", "health">>,
    <<"perinatal">>, <<"reproductive", " ", "health">>,
    <<"prenatal">>, <<"postpartum">> >>

PROGRAM_KEYWORDS == <<
    <<"health", "y", " ", "start">>, <<"wic">>, <<"home", " ", "visiting">>,
    <<"miechv">>, <<"black", " ", "infant", " ", "health">>, <<"first", " ", "5">>,
    <<"nurse", "-", "family", " ", "partnership">>, <<"title", " ", "v">>,
    <<"perinatal", " ", "equity">>, <<"postpartum">>, <<"breastfeeding">>,
    <<"lactation">>, <<"family", " ", "planning">>,
    <<"parents", " ", "as", " ", "teachers">>, <<"nfp">> >>

DEPT_PATHS == << <<"/", "health">>, <<"/", "public", "-", "health">> >>

SECTION_PATHS == << <<"/", "mch">>, <<"/", "mcah">>, <<"/", "maternal">>,
                    <<"/", "perinatal">>, <<"/", "family", "-", "health">> >>

PROGRAM_PATHS == << <<"/", "apply">>, <<"/", "program">>, <<"/", "services">>,
                    <<"/", "maternal">>, <<"/", "perinatal">> >>

SOCIAL_HOSTS == << <<"facebook", ".", "com">>, <<"twitter", ".", "com">>,
                   <<"instagram", ".", "com">>, <<"youtube", ".", "com">>,
                   <<"linkedin", ".", "com">> >>

\* default of collect_program_links' max_links
MaxLinks == 25

-----------------------------------------------------------------------------
(* scraper_discovery.py : helpers *)

FetchFailed == [ok |-> FALSE, anchors |-> <<>>]

normalize_url(base_url, href) == urljoin(base_url, href)

\* the (href, text) pairs of the anchors of a fetched page, in document order
extract_links(soup, base_url) ==
    [i \in 1..Len(soup.anchors) |->
        <<normalize_url(base_url, soup.anchors[i].href), soup.anchors[i].text>>]

\* is_same_domain without the "." in front of the base netloc
is_same_domain_no_dot(base_url, candidate_url) ==
    EndsWith(UrlNetloc(candidate_url), UrlNetloc(base_url))

is_same_domain(base_url, candidate_url) ==
    LET b == UrlNetloc(base_url)
        c == UrlNetloc(candidate_url)
    IN  (c = b) \/ EndsWith(c, <<".">> \o b)

\* any(w in t or w in h for w in words)
contains_any(words, t, h) ==
    \E k \in 1..Len(words) : Contains(words[k], t) \/ Contains(words[k], h)

\* any(seg in h for seg in segs)
any_in(segs, h) == \E k \in 1..Len(segs) : Contains(segs[k], h)

\* score_link with a social-media penalty of 2
score_link_penalty_two(href, text, level) ==
    LET t == lower(text)
        h == lower(href)
        kw == IF contains_any(CASE level = "dept" -> DEPT_KEYWORDS
                                [] level = "section" -> SECTION_KEYWORDS
                                [] OTHER -> PROGRAM_KEYWORDS, t, h)
              THEN (IF level = "program" THEN 2 ELSE 3) ELSE 0
        seg == IF any_in(CASE level = "dept" -> DEPT_PATHS
                           [] level = "section" -> SECTION_PATHS
                           [] OTHER -> PROGRAM_PATHS, h)
               THEN (IF level = "program" THEN 1 ELSE 2) ELSE 0
        social == IF any_in(SOCIAL_HOSTS, h) THEN 2 ELSE 0
    IN  kw + seg - social

score_link(href, text, level) ==
    LET t == lower(text)
        h == lower(href)
        kw == CASE level = "dept" ->
                    IF contains_any(DEPT_KEYWORDS, t, h) THEN 3 ELSE 0
                [] level = "section" ->
                    IF contains_any(SECTION_KEYWORDS, t, h) THEN 3 ELSE 0
                [] level = "program" ->
                    IF contains_any(PROGRAM_KEYWORDS, t, h) THEN 2 ELSE 0
                [] OTHER -> 0
        seg == CASE level = "dept" -> IF any_in(DEPT_PATHS, h) THEN 2 ELSE 0
                 [] level = "section" -> IF any_in(SECTION_PATHS, h) THEN 2 ELSE 0
                 [] level = "program" -> IF any_in(PROGRAM_PATHS, h) THEN 1 ELSE 0
                 [] OTHER -> 0
        social == IF any_in(SOCIAL_HOSTS, h) THEN 3 ELSE 0
    IN  kw + seg - social

\* the test with >= : a later link of equal score replaces the earlier one
Better_or_equal(sc, best_score) == sc >= best_score

\* the test  sc > best_score  of choose_best_link
Better(sc, best_score) == sc > best_score

\* the loop of choose_best_link from link i on, with the locals best, best_score
RECURSIVE choose_loop(_, _, _, _, _, _)
choose_loop(lnks, base_url, level, i, best, best_score) ==
    IF i > Len(lnks) THEN best
    ELSE LET href == lnks[i][1]
             text == lnks[i][2]
         IN  IF ~StartsWith(href, <<"http">>)
             THEN choose_loop(lnks, base_url, level, i + 1, best, best_score)
             ELSE IF ~is_same_domain(base_url, href)
             THEN choose_loop(lnks, base_url, level, i + 1, best, best_score)
             ELSE LET sc == score_link(href, text, level)
                  IN  IF Better(sc, best_score)
                      THEN choose_loop(lnks, base_url, level, i + 1, href, sc)
                      ELSE choose_loop(lnks, base_url, level, i + 1, best, best_score)

choose_best_link(lnks, base_url, level) ==
    choose_loop(lnks, base_url, level, 1, None, -999)

\* the insertion in front of the entries of equal score: ties come out reversed
RECURSIVE insert_desc_unstable(_, _)
insert_desc_unstable(sorted, e) ==
    IF sorted = <<>> THEN <<e>>
    ELSE IF sorted[1][1] > e[1]
    THEN <<sorted[1]>> \o insert_desc_unstable(Tail(sorted), e)
    ELSE <<e>> \o sorted

\* scored.sort(key=lambda t: t[0], reverse=True): a stable sort, entries of
\* equal score keep their order.  Insert e behind every entry scoring >= e.
RECURSIVE insert_desc(_, _)
insert_desc(sorted, e) ==
    IF sorted = <<>> THEN <<e>>
    ELSE IF sorted[1][1] >= e[1] THEN <<sorted[1]>> \o insert_desc(Tail(sorted), e)
    ELSE <<e>> \o sorted

RECURSIVE sort_desc(_, _)
sort_desc(scored, i) ==
    IF i = 0 THEN <<>> ELSE insert_desc(sort_desc(scored, i - 1), scored[i])

\* score_loop keeping the links that score 0
RECURSIVE score_loop_nonneg(_, _)
score_loop_nonneg(lnks, i) ==
    IF i > Len(lnks) THEN <<>>
    ELSE LET href == lnks[i][1]
             text == lnks[i][2]
             sc == score_link(href, text, "program")
         IN  IF ~StartsWith(href, <<"http">>) THEN score_loop_nonneg(lnks, i + 1)
             ELSE IF sc < 0 THEN score_loop_nonneg(lnks, i + 1)
             ELSE << <<sc, href, text>> >> \o score_loop_nonneg(lnks, i + 1)

\* the first loop of collect_program_links: the (sc, href, text) of the
\* absolute links scoring above 0, in document order
RECURSIVE score_loop(_, _)
score_loop(lnks, i) ==
    IF i > Len(lnks) THEN <<>>
    ELSE LET href == lnks[i][1]
             text == lnks[i][2]
             sc == score_link(href, text, "program")
         IN  IF ~StartsWith(href, <<"http">>) THEN score_loop(lnks, i + 1)
             ELSE IF sc <= 0 THEN score_loop(lnks, i + 1)
             ELSE << <<sc, href, text>> >> \o score_loop(lnks, i + 1)

\* the second loop: skip urls seen, append, stop once max_links are held
RECURSIVE dedup_loop(_, _, _, _, _)
dedup_loop(scored, i, seen, programs, max_links) ==
    IF i > Len(scored) THEN programs
    ELSE LET href == scored[i][2]
             text == scored[i][3]
         IN  IF href \in seen THEN dedup_loop(scored, i + 1, seen, programs, max_links)
             ELSE LET ps == Append(programs,
                                [name |-> text, url |-> href,
                                 link_text |-> text, nav_path |-> <<>>])
                  IN  IF Len(ps) >= max_links THEN ps
                      ELSE dedup_loop(scored, i + 1, seen \cup {href}, ps, max_links)

\* rank_program_links without the cap
rank_program_links_uncapped(lnks, max_links) ==
    LET scored == score_loop(lnks, 1)
    IN  dedup_loop(sort_desc(scored, Len(scored)), 1, {}, <<>>, Len(scored) + 1)

\* collect_program_links once the seed page has been fetched
rank_program_links(lnks, max_links) ==
    LET scored == score_loop(lnks, 1)
    IN  dedup_loop(sort_desc(scored, Len(scored)), 1, {}, <<>>, max_links)

\* collect_program_links without the sort
collect_program_links_unsorted(soup, seed_url) ==
    IF ~soup.ok THEN <<>>
    ELSE dedup_loop(score_loop(extract_links(soup, seed_url), 1), 1, {}, <<>>, MaxLinks)

collect_program_links(soup, seed_url) ==
    IF ~soup.ok THEN <<>>
    ELSE rank_program_links(extract_links(soup, seed_url), MaxLinks)

-----------------------------------------------------------------------------
(* The pages a county site may serve *)

Anchor(h, t) == [href |-> h, text |-> t]

AnchorPool == {
    Anchor(<<"/", "health">>, <<"Public", " ", "Health", " ", "Department">>),
    Anchor(<<"/", "contact">>, <<"Contact", " ", "Us">>),
    Anchor(<<"/", "public", "-", "health">>, <<"Health", " ", "services">>),
    Anchor(HTTPS \o <<"www", ".", "facebook", ".", "com", "/", "health">>,
           <<"Public", " ", "Health">>),
    Anchor(HTTPS \o <<"health", ".", "sf", ".", "gov", "/", "mcah">>, <<"MCAH">>),
    Anchor(HTTPS \o <<"health", ".", "acgov", ".", "org", "/", "mcah">>, <<"MCAH">>),
    Anchor(HTTPS \o <<"not", "sf", ".", "gov", "/", "health">>,
           <<"Public", " ", "Health", " ", "Department">>),
    Anchor(<<"mailto", ":", "wic", "@", "sf", ".", "gov">>, <<"WIC">>),
    Anchor(<<"/", "perinatal">>, <<"Perinatal">>),
    Anchor(<<"/", "mcah">>, <<"Black", " ", "Infant", " ", "Health">>),
    Anchor(HTTPS \o <<"sf", ".", "gov", "@", "evil", ".", "com", "/", "health">>,
           <<"Public", " ", "Health", " ", "Department">>) }

\* the anchors the pages of the discovery workflow are built from
SitePool == {
    Anchor(<<"/", "health">>, <<"Public", " ", "Health", " ", "Department">>),
    Anchor(<<"/", "contact">>, <<"Contact", " ", "Us">>),
    Anchor(HTTPS \o <<"www", ".", "facebook", ".", "com", "/", "health">>,
           <<"Public", " ", "Health">>),
    Anchor(HTTPS \o <<"health", ".", "sf", ".", "gov", "/", "mcah">>, <<"MCAH">>),
    Anchor(<<"mailto", ":", "wic", "@", "sf", ".", "gov">>, <<"WIC">>),
    Anchor(<<"/", "perinatal">>, <<"Perinatal">>),
    Anchor(<<"/", "perinatal">>, <<"WIC">>) }

SeqsUpTo(S, n) == UNION {[1..k -> S] : k \in 0..n}

\* a long list of program links: every third one names WIC
ListPage(k) ==
    [i \in 1..k |->
        Anchor(<<"/", "program", "/", ToString(i)>>,
               IF i % 3 = 0 THEN <<"WIC", " ", ToString(i)>>
                            ELSE <<"Program", " ", ToString(i)>>)]

ListPages == {ListPage(k) : k \in (MaxLinks - 1)..(MaxLinks + OverCap)}

\* what fetch_soup may return: None, or a parsed page
Soups ==
    {FetchFailed} \cup
    {[ok |-> TRUE, anchors |-> a] : a \in SeqsUpTo(SitePool, MaxAnchors) \cup ListPages}

-----------------------------------------------------------------------------
(* run_discovery_for_county *)

NavFull == <<"Main -> Health Dept -> Maternal/Child">>
NavDept == <<"Main -> Health Dept">>

DiscoveryInit ==
    /\ county_name \in DOMAIN CALIFORNIA_COUNTIES
    /\ county_root_url = CALIFORNIA_COUNTIES[county_name]
    /\ pc = "step1"
    /\ result = [county_name |-> county_name,
                 county_url |-> county_root_url,
                 health_dept_url |-> <<>>,
                 maternal_section_url |-> <<>>,
                 programs |-> <<>>]
    /\ dept = None
    /\ mch = None
    /\ fetched = <<>>
    /\ links = None

\* no fallback: the empty result is carried on
OrFallback_none(found, fallback) == found

\* "if dept: ... else: dept = county_root_url", and the same for mch
OrFallback(found, fallback) == IF Truthy(found) THEN found ELSE fallback

\* find_health_dept_page and lines 244-250
FindHealthDeptPage ==
    /\ pc = "step1"
    /\ \E soup \in Soups :
        LET found == IF ~soup.ok THEN None
                     ELSE choose_best_link(extract_links(soup, county_root_url),
                                           county_root_url, "dept")
        IN  /\ fetched' = Append(fetched, [url |-> county_root_url, ok |-> soup.ok])
            /\ IF Truthy(found)
               THEN /\ result' = [result EXCEPT !.health_dept_url = found]
                    /\ dept' = found
               ELSE /\ result' = result
                    /\ dept' = OrFallback(found, county_root_url)
    /\ pc' = "step2"
    /\ UNCHANGED <<county_name, county_root_url, mch, links>>

\* find_maternal_section and lines 251-257
FindMaternalSection ==
    /\ pc = "step2"
    /\ \E soup \in Soups :
        LET found == IF ~soup.ok THEN None
                     ELSE choose_best_link(extract_links(soup, dept), dept, "section")
        IN  /\ fetched' = Append(fetched, [url |-> dept, ok |-> soup.ok])
            /\ IF Truthy(found)
               THEN /\ result' = [result EXCEPT !.maternal_section_url = found]
                    /\ mch' = found
               ELSE /\ result' = result
                    /\ mch' = OrFallback(found, dept)
    /\ pc' = "step3"
    /\ UNCHANGED <<county_name, county_root_url, dept, links>>

\* collect_program_links and lines 258-263
CollectProgramLinks ==
    /\ pc = "step3"
    /\ \E soup \in Soups : \E programs \in {collect_program_links(soup, mch)} :
        LET nav == IF Truthy(result.maternal_section_url) THEN NavFull ELSE NavDept
        IN  /\ fetched' = Append(fetched, [url |-> mch, ok |-> soup.ok])
            /\ links' = IF soup.ok THEN extract_links(soup, mch) ELSE None
            /\ result' = [result EXCEPT !.programs =
                            [i \in 1..Len(programs) |->
                                [programs[i] EXCEPT !.nav_path = nav]]]
    /\ pc' = "done"
    /\ UNCHANGED <<county_name, county_root_url, dept, mch>>

-----------------------------------------------------------------------------
(* choose_best_link on its own *)

Levels == {"dept", "section"}

ChooseIdle ==
    /\ cb_links = <<>>
    /\ cb_base = <<>>
    /\ cb_level = "dept"
    /\ cb_best = None
    /\ cb_pc = "idle"

ChooseInit ==
    /\ cb_base \in {CALIFORNIA_COUNTIES[c] : c \in DOMAIN CALIFORNIA_COUNTIES}
                    \cup {HTTPS \o <<"health", ".", "sf", ".", "gov", "/", "mcah">>}
    /\ cb_links \in {extract_links([ok |-> TRUE, anchors |-> a], cb_base) :
                        a \in SeqsUpTo(AnchorPool, MaxChoose)}
    /\ cb_level \in Levels
    /\ cb_best = None
    /\ cb_pc = "called"

ChooseBestLink ==
    /\ cb_pc = "called"
    /\ cb_best' = choose_best_link(cb_links, cb_base, cb_level)
    /\ cb_pc' = "returned"
    /\ UNCHANGED <<cb_links, cb_base, cb_level>>

-----------------------------------------------------------------------------
(* Python dicts: functions on the keys present *)

EmptyDict == <<>>

\* d.get(k, default)
Get(d, k, default) == IF k \in DOMAIN d THEN d[k] ELSE default

\* str.strip(): whitespace removed at both ends
IsSpace(tok) == tok \in {" ", "\n", "\t"}

RECURSIVE lstrip(_)
lstrip(s) == IF s # <<>> /\ IsSpace(s[1]) THEN lstrip(Tail(s)) ELSE s

RECURSIVE rstrip(_)
rstrip(s) ==
    IF s # <<>> /\ IsSpace(s[Len(s)]) THEN rstrip(SubSeq(s, 1, Len(s) - 1)) ELSE s

strip(s) == rstrip(lstrip(s))

-----------------------------------------------------------------------------
(* scraper.py : save_to_csv *)

STATE_NAME == <<"California">>
DATA_COLLECTOR_NAME == <<"Your Name">>
Today == <<"today">>
NoProgramsFound == <<"No programs found on main page">>

\* the row of one program of one county
ProgramRow(county_data, program) ==
    [State |-> Get(county_data, "state", STATE_NAME),
     County_Name |-> Get(county_data, "county_name", <<>>),
     County_Website_URL |-> Get(county_data, "county_website_url", <<>>),
     Health_Department_Name |-> Get(county_data, "health_department_name", <<>>),
     Health_Department_Contact_Email |->
        Get(county_data, "health_department_contact_email", <<>>),
     Health_Department_Contact_Phone |->
        Get(county_data, "health_department_contact_phone", <<>>),
     Program_Name |-> Get(program, "program_name", <<>>),
     Program_Category |-> Get(program, "program_category", <<>>),
     Program_Description |-> Get(program, "program_description", <<>>),
     Target_Population |-> Get(program, "target_population", <<>>),
     Eligibility_Requirements |-> Get(program, "eligibility_requirements", <<>>),
     Application_Process |-> Get(program, "application_process", <<>>),
     Required_Documentation |-> Get(program, "required_documentation", <<>>),
     Financial_Assistance_Available |->
        Get(program, "financial_assistance_available", <<>>),
     Program_Website_URL |-> Get(program, "program_website_url", <<>>),
     Last_Updated |-> Today,
     Data_Collector_Name |-> DATA_COLLECTOR_NAME,
     Notes |-> Get(county_data, "notes", <<>>)]

\* the row of a county without programs
PlaceholderRow(county_data) ==
    [ProgramRow(county_data, EmptyDict) EXCEPT !.Program_Name = NoProgramsFound]

\* no row for a county without programs
CountyRows_no_placeholder(county_data) ==
    LET programs == Get(county_data, "programs", <<>>)
    IN  [j \in 1..Len(programs) |-> ProgramRow(county_data, programs[j])]

\* the rows of one county record
CountyRows(county_data) ==
    LET programs == Get(county_data, "programs", <<>>)
    IN  IF programs = <<>> THEN <<PlaceholderRow(county_data)>>
        ELSE [j \in 1..Len(programs) |-> ProgramRow(county_data, programs[j])]

\* the rows save_to_csv writes for results[i..]
RECURSIVE csv_rows(_, _)
csv_rows(results, i) ==
    IF i > Len(results) THEN <<>>
    ELSE CountyRows(results[i]) \o csv_rows(results, i + 1)

save_to_csv(results) == csv_rows(results, 1)

-----------------------------------------------------------------------------
(* scraper_structure.py main / run_pipeline.py run_phase_3 *)

NotFound == <<"Not found">>

Drivers == {"structure_main", "run_phase_3"}

\* what the discovery results say of each county
county_meta == [c \in DOMAIN CALIFORNIA_COUNTIES |-> [county_url |-> CALIFORNIA_COUNTIES[c]]]

\* the raw page files: the county directory they lie in, whether json.load
\* succeeds, and the page read
RawFiles == {
    [dir |-> Alameda, readable |-> TRUE, page |-> ("county" :> Alameda)],
    [dir |-> SanFrancisco, readable |-> TRUE, page |-> ("county" :> SanFrancisco)],
    [dir |-> Alameda, readable |-> FALSE, page |-> EmptyDict] }

\* programs as the collaborator returns them
ProgramWic ==
    ("program_name" :> <<"WIC">>) @@ ("program_category" :> <<"Maternal Health">>) @@
    ("program_description" :> <<"Nutrition">>) @@ ("target_population" :> <<"Women">>) @@
    ("eligibility_requirements" :> <<"Not specified">>) @@
    ("application_process" :> <<"Call">>) @@
    ("required_documentation" :> <<"Not specified">>) @@
    ("financial_assistance_available" :> <<"Yes">>) @@
    ("program_website_url" :> <<"/", "services", "/", "wic">>)

ProgramBare == ("program_name" :> <<"Home Visiting">>)

\* what extract_program_openai may return: None, or the parsed JSON object
NoResult == [ok |-> FALSE, value |-> EmptyDict]

ResultValues == {
    EmptyDict,
    ("health_department_name" :> <<"Public Health">>) @@
      ("health_department_contact_email" :> <<"ph@county.gov">>) @@
      ("health_department_contact_phone" :> <<"555-0100">>) @@
      ("programs" :> <<ProgramWic>>) @@ ("notes" :> <<"a">>),
    ("health_department_name" :> <<"HHSA">>) @@
      ("health_department_contact_email" :> <<"hhsa@county.gov">>) @@
      ("health_department_contact_phone" :> <<"555-0199">>) @@
      ("programs" :> <<ProgramBare, ProgramWic>>) @@ ("notes" :> <<"b", " ">>),
    ("programs" :> <<ProgramWic>>) @@ ("notes" :> <<" ", "c">>),
    ("health_department_name" :> <<"HHSA">>) @@ ("programs" :> <<>>) @@ ("notes" :> <<>>),
    ("health_department_contact_phone" :> <<"555-0199">>) @@ ("notes" :> <<" ">>),
    ("notes" :> <<"a">>) }

Outcomes == {NoResult} \cup {[ok |-> TRUE, value |-> v] : v \in ResultValues}

\* json.loads also parses texts that are no object: a list, a string
NonObjects == {<<"[1]">>, <<"n/a">>}

\* "if not result": None and the empty object are both falsy
HasResult(out) == out.ok /\ out.value # EmptyDict

\* the county a page is structured for
PageCounty(f) ==
    IF driver = "run_phase_3" THEN Get(f.page, "county", f.dir)
    ELSE Get(f.page, "county", <<>>)

CountyUrl(c) == IF c \in DOMAIN county_meta THEN county_meta[c].county_url ELSE <<>>

\* the accumulator created on a county's first result
NewAccumulator(c, res) ==
    [county_name |-> c,
     state |-> STATE_NAME,
     county_website_url |-> CountyUrl(c),
     health_department_name |-> Get(res, "health_department_name", NotFound),
     health_department_contact_email |->
        Get(res, "health_department_contact_email", NotFound),
     health_department_contact_phone |->
        Get(res, "health_department_contact_phone", NotFound),
     programs |-> <<>>,
     notes |-> <<>>]

\* programs replaced by the last result's
ExtendPrograms_replace(programs, res) == Get(res, "programs", <<>>)

\* programs.extend(result.get("programs", []))
ExtendPrograms(programs, res) == programs \o Get(res, "programs", <<>>)

\* notes replaced by the last result's
MergeNotes_replace(prev, res) ==
    IF Get(res, "notes", <<>>) # <<>> THEN strip(res["notes"]) ELSE prev

\* the notes after a result: joined only when result.get("notes") is truthy
MergeNotes(prev, res) ==
    IF Get(res, "notes", <<>>) # <<>>
    THEN strip(prev \o <<" ">> \o res["notes"])
    ELSE prev

\* the accumulator a result is merged into
Accumulator(c, res) ==
    IF c \in DOMAIN county_to_data THEN county_to_data[c] ELSE NewAccumulator(c, res)

\* the merge also overwriting the department identity
MergeInto_overwrite(acc, res) ==
    [acc EXCEPT !.programs = ExtendPrograms(acc.programs, res),
                !.notes = MergeNotes(acc.notes, res),
                !.health_department_name = Get(res, "health_department_name", NotFound),
                !.health_department_contact_email =
                    Get(res, "health_department_contact_email", NotFound),
                !.health_department_contact_phone =
                    Get(res, "health_department_contact_phone", NotFound)]

MergeInto(acc, res) ==
    [acc EXCEPT !.programs = ExtendPrograms(acc.programs, res),
                !.notes = MergeNotes(acc.notes, res)]

IsGrouped(fs) ==
    \A i, j, k \in 1..Len(fs) : (i < j /\ j < k /\ fs[i].dir = fs[k].dir) => fs[j].dir = fs[i].dir

StructureInit ==
    /\ driver \in Drivers
    /\ files \in SeqsUpTo(RawFiles, MaxFiles)
    /\ (driver = "run_phase_3") => IsGrouped(files)
    /\ fi = 1
    /\ spc = "loop"
    /\ county_to_data = EmptyDict
    /\ order = <<>>
    /\ returned = <<>>
    /\ csv_files = EmptyDict

StructureIdle ==
    /\ driver = "structure_main"
    /\ files = <<>>
    /\ fi = 1
    /\ spc = "idle"
    /\ county_to_data = EmptyDict
    /\ order = <<>>
    /\ returned = <<>>
    /\ csv_files = EmptyDict

\* json.load of the raw file raises: reported, next file
SkipUnreadable ==
    /\ spc = "loop" /\ fi <= Len(files)
    /\ ~files[fi].readable
    /\ fi' = fi + 1
    /\ UNCHANGED <<driver, spc, files, county_to_data, order, returned, csv_files>>

\* the skip that first sets up the county's accumulator
SkipNoResult_creates ==
    /\ spc = "loop" /\ fi <= Len(files)
    /\ files[fi].readable
    /\ \E out \in Outcomes :
        LET c == PageCounty(files[fi])
        IN  /\ ~HasResult(out)
            /\ returned' = Append(returned, <<c, out>>)
            /\ county_to_data' = (c :> Accumulator(c, out.value)) @@ county_to_data
            /\ order' = IF c \in DOMAIN county_to_data THEN order ELSE Append(order, c)
    /\ fi' = fi + 1
    /\ UNCHANGED <<driver, spc, files, csv_files>>

\* the collaborator gives no result: reported, next file
SkipNoResult ==
    /\ spc = "loop" /\ fi <= Len(files)
    /\ files[fi].readable
    /\ \E out \in Outcomes :
        /\ ~HasResult(out)
        /\ returned' = Append(returned, <<PageCounty(files[fi]), out>>)
    /\ fi' = fi + 1
    /\ UNCHANGED <<driver, spc, files, county_to_data, order, csv_files>>

\* the collaborator gives a result: merged into the county's accumulator
MergeResult ==
    /\ spc = "loop" /\ fi <= Len(files)
    /\ files[fi].readable
    /\ \E out \in Outcomes :
        LET c == PageCounty(files[fi])
        IN  /\ HasResult(out)
            /\ returned' = Append(returned, <<c, out>>)
            /\ county_to_data' =
                 (c :> MergeInto(Accumulator(c, out.value), out.value)) @@ county_to_data
            /\ order' = IF c \in DOMAIN county_to_data THEN order ELSE Append(order, c)
    /\ fi' = fi + 1
    /\ UNCHANGED <<driver, spc, files, csv_files>>

\* the collaborator's JSON is truthy but no object: result.get raises
\* AttributeError outside any try, and the exception leaves the loop
MergeRaises ==
    /\ spc = "loop" /\ fi <= Len(files)
    /\ files[fi].readable
    /\ \E value \in NonObjects :
        /\ value # <<>>
        /\ spc' = "raised"
    /\ UNCHANGED <<driver, files, fi, county_to_data, order, returned, csv_files>>

\* safe_name: spaces become underscores
safe_name(name) == [i \in 1..Len(name) |-> IF name[i] = " " THEN "_" ELSE name[i]]

CountyCsv(c) == STATE_NAME \o <<"_">> \o safe_name(c) \o <<"_Healthcare_Data.csv">>
OUTPUT_FILE == <<"California_County_Healthcare_Data.csv">>

\* only the counties that have programs
results_list_with_programs ==
    LET RECURSIVE keep(_)
        keep(i) == IF i > Len(order) THEN <<>>
                   ELSE IF county_to_data[order[i]].programs = <<>> THEN keep(i + 1)
                   ELSE <<county_to_data[order[i]]>> \o keep(i + 1)
    IN  keep(1)

\* list(county_to_data.values())
results_list == [i \in 1..Len(order) |-> county_to_data[order[i]]]

\* after the loop: nothing is written without a structured county; otherwise
\* one CSV per county, and main also writes the combined CSV
WriteCsv ==
    /\ spc = "loop" /\ fi > Len(files)
    /\ csv_files' =
         IF results_list = <<>> THEN csv_files
         ELSE LET n == Len(results_list)
                  per == [f \in {CountyCsv(results_list[i].county_name) : i \in 1..n} |->
                            LET i == CHOOSE k \in 1..n :
                                        CountyCsv(results_list[k].county_name) = f
                            IN  save_to_csv(<<results_list[i]>>)]
              IN  IF driver = "structure_main"
                  THEN (OUTPUT_FILE :> save_to_csv(results_list)) @@ per
                  ELSE per
    /\ spc' = "done"
    /\ UNCHANGED <<driver, files, fi, county_to_data, order, returned>>

-----------------------------------------------------------------------------
(* score_link and is_same_domain on their own *)

AllLevels == {"dept", "section", "program"}

\* (href, text) pairs as extract_links hands them to the scoring
LinkPool == {
    <<HTTPS \o <<"www", ".", "acgov", ".", "org", "/", "health">>,
      <<"Public", " ", "Health", " ", "Department">> >>,
    <<HTTPS \o <<"www", ".", "acgov", ".", "org", "/", "contact">>,
      <<"Contact", " ", "Us">> >>,
    <<HTTPS \o <<"www", ".", "acgov", ".", "org", "/", "services">>,
      <<"Health", " ", "services">> >>,
    <<HTTPS \o <<"health", ".", "acgov", ".", "org", "/", "mcah">>, <<"MCAH">> >>,
    <<HTTPS \o <<"health", ".", "sf", ".", "gov", "/", "mcah">>, <<"MCAH">> >>,
    <<HTTPS \o <<"health", ".", "sf", ".", "gov", "/", "contact">>,
      <<"Contact", " ", "Us">> >>,
    <<HTTPS \o <<"sf", ".", "gov", "/", "perinatal">>, <<"WIC">> >>,
    <<HTTPS \o <<"sf", ".", "gov", "/", "program", "/", "1">>,
      <<"Program", " ", "1">> >>,
    <<HTTPS \o <<"sf", ".", "gov", "/", "health">>, <<"Public", " ", "Health">> >>,
    <<HTTPS \o <<"sf", ".", "gov", "/", "health", "?", "share", "=",
                 "facebook", ".", "com">>,
      <<"Public", " ", "Health">> >>,
    <<HTTPS \o <<"sf", ".", "gov", "/", "page", "?", "next", "=", "/", "health">>,
      <<"Contact", " ", "Us">> >>,
    <<HTTPS \o <<"not", "sf", ".", "gov", "/", "health">>,
      <<"Public", " ", "Health", " ", "Department">> >>,
    <<HTTPS \o <<"www", ".", "facebook", ".", "com", "/", "health">>,
      <<"Public", " ", "Health">> >>,
    <<HTTPS \o <<"www", ".", "Facebook", ".", "com", "/", "perinatal">>, <<"WIC">> >>,
    <<HTTPS \o <<"twitter", ".", "com", "/", "acgov">>, <<"Contact", " ", "Us">> >>,
    <<HTTPS \o <<"twitter", ".", "com", "/", "sf", "/", "program">>,
      <<"Program", " ", "1">> >>,
    <<<<"mailto", ":", "wic", "@", "sf", ".", "gov">>, <<"WIC">> >> }

LinkIdle ==
    /\ lk_base = <<>>
    /\ lk_href = <<>>
    /\ lk_text = <<>>
    /\ lk_level = "dept"
    /\ lk_score = 0
    /\ lk_same = FALSE
    /\ lk_pc = {}

LinkInit ==
    /\ lk_base \in {CALIFORNIA_COUNTIES[c] : c \in DOMAIN CALIFORNIA_COUNTIES}
                    \cup {HTTPS \o <<"health", ".", "sf", ".", "gov", "/", "mcah">>}
    /\ \E l \in LinkPool : lk_href = l[1] /\ lk_text = l[2]
    /\ lk_level \in AllLevels
    /\ lk_score = 0
    /\ lk_same = FALSE
    /\ lk_pc = {}

ScoreLink ==
    /\ "score" \notin lk_pc
    /\ lk_score' = score_link(lk_href, lk_text, lk_level)
    /\ lk_pc' = lk_pc \cup {"score"}
    /\ UNCHANGED <<lk_base, lk_href, lk_text, lk_level, lk_same>>

IsSameDomain ==
    /\ "same" \notin lk_pc
    /\ lk_same' = is_same_domain(lk_base, lk_href)
    /\ lk_pc' = lk_pc \cup {"same"}
    /\ UNCHANGED <<lk_base, lk_href, lk_text, lk_level, lk_score>>

-----------------------------------------------------------------------------
(* fetch_soup (scraper_discovery.py and scraper_extract.py) *)

NoException == "none"

\* what requests.get may raise: all subclasses of Exception
RequestErrors == {"ConnectionError", "Timeout", "TooManyRedirects"}

\* final status codes of a response (redirects with a Location are followed)
Statuses == {200, 204, 300, 304, 403, 404, 500, 503}

\* one call of requests.get, and whether BeautifulSoup parses the content
Gets ==
    {[error |-> e, status |-> 0, parses |-> FALSE, soup |-> FetchFailed] :
        e \in RequestErrors}
    \cup
    {[error |-> NoException, status |-> s, parses |-> p,
      soup |-> [ok |-> TRUE, anchors |-> a]] :
        s \in Statuses, p \in BOOLEAN, a \in SeqsUpTo(SitePool, 1)}

\* resp.raise_for_status() never raising
raise_for_status_never(status) == NoException

\* resp.raise_for_status(): HTTPError for the 4xx and 5xx statuses
raise_for_status(status) ==
    IF 400 <= status /\ status < 600 THEN "HTTPError" ELSE NoException

\* the classes "except Exception" catches
ExceptionSubclasses == RequestErrors \cup {"HTTPError", "ParserError"}

\* the try block: get, raise_for_status, parse (the elements decomposed
\* afterwards are not part of the pages of the model)
fetch_soup_try(get) ==
    IF get.error # NoException THEN [raised |-> get.error, soup |-> FetchFailed]
    ELSE IF raise_for_status(get.status) # NoException
    THEN [raised |-> raise_for_status(get.status), soup |-> FetchFailed]
    ELSE IF ~get.parses THEN [raised |-> "ParserError", soup |-> FetchFailed]
    ELSE [raised |-> NoException, soup |-> get.soup]

\* scraper_discovery.fetch_soup: "except Exception: return None"
fetch_soup(get) ==
    LET b == fetch_soup_try(get)
    IN  IF b.raised \in ExceptionSubclasses
        THEN [raised |-> NoException, soup |-> FetchFailed]
        ELSE b

\* scraper_extract.fetch_soup: the same body with other request headers
extract_fetch_soup(get) ==
    LET b == fetch_soup_try(get)
    IN  IF b.raised \in ExceptionSubclasses
        THEN [raised |-> NoException, soup |-> FetchFailed]
        ELSE b

FetchModules == {"scraper_discovery", "scraper_extract"}

FetchIdle ==
    /\ ft_fn = "scraper_discovery"
    /\ ft_get = [error |-> "Timeout", status |-> 0, parses |-> FALSE, soup |-> FetchFailed]
    /\ ft_ret = [raised |-> NoException, soup |-> FetchFailed]
    /\ ft_pc = "idle"

FetchInit ==
    /\ ft_fn \in FetchModules
    /\ ft_get \in Gets
    /\ ft_ret = [raised |-> NoException, soup |-> FetchFailed]
    /\ ft_pc = "called"

FetchSoup ==
    /\ ft_pc = "called"
    /\ ft_ret' = IF ft_fn = "scraper_discovery" THEN fetch_soup(ft_get)
                 ELSE extract_fetch_soup(ft_get)
    /\ ft_pc' = "returned"
    /\ UNCHANGED <<ft_fn, ft_get>>

-----------------------------------------------------------------------------
(* scraper_extract.py *)

MAX_TEXT_CHARS == 20000
RAW_DIR == <<"data", "/", "raw">>

\* the single-character tokens that are no letter or digit
Punctuation ==
    {"/", ":", ".", " ", "@", "-", "#", "?", "=", "_", "'", "(", ")", "\n", "\t"}

\* re.sub(r'[^a-zA-Z0-9]+', '-', s): every run of other characters becomes "-"
RECURSIVE sub_non_alnum(_, _)
sub_non_alnum(s, i) ==
    IF i > Len(s) THEN <<>>
    ELSE IF s[i] \notin Punctuation THEN <<s[i]>> \o sub_non_alnum(s, i + 1)
    ELSE IF i > 1 /\ s[i - 1] \in Punctuation THEN sub_non_alnum(s, i + 1)
    ELSE <<"-">> \o sub_non_alnum(s, i + 1)

\* re.sub(r'-{2,}', '-', s)
RECURSIVE sub_dashes(_, _)
sub_dashes(s, i) ==
    IF i > Len(s) THEN <<>>
    ELSE IF s[i] = "-" /\ i > 1 /\ s[i - 1] = "-" THEN sub_dashes(s, i + 1)
    ELSE <<s[i]>> \o sub_dashes(s, i + 1)

\* s.strip('-')
RECURSIVE strip_dash(_)
strip_dash(s) ==
    IF s # <<>> /\ s[1] = "-" THEN strip_dash(Tail(s))
    ELSE IF s # <<>> /\ s[Len(s)] = "-" THEN strip_dash(SubSeq(s, 1, Len(s) - 1))
    ELSE s

slugify(text) ==
    LET s == strip_dash(sub_dashes(sub_non_alnum(lower(strip(text)), 1), 1))
    IN  IF s = <<>> THEN <<"item">> ELSE s

\* sha1(url).hexdigest()[:10]: one digest token; the urls of the model have
\* distinct digests
page_hash(url) == <<ToString(url)>>

\* page texts are sequences of characters
TRUNCATION_MARKER ==
    <<"\n", "\n", "[", "C", "o", "n", "t", "e", "n", "t", " ",
      "t", "r", "u", "n", "c", "a", "t", "e", "d", ".", ".", ".", "]">>

\* the cut applied whatever the length
truncate_always(text) ==
    SubSeq(text, 1, IF Len(text) < MAX_TEXT_CHARS THEN Len(text) ELSE MAX_TEXT_CHARS)
        \o TRUNCATION_MARKER

\* lines 67-68: the text beyond the budget is cut and the marker appended
truncate(text) ==
    IF Len(text) > MAX_TEXT_CHARS
    THEN SubSeq(text, 1, MAX_TEXT_CHARS) \o TRUNCATION_MARKER
    ELSE text

\* re.sub(r'\n{3,}', '\n\n', text): runs of 3 and more newlines become 2
RECURSIVE sub_newlines(_, _)
sub_newlines(s, i) ==
    IF i > Len(s) THEN <<>>
    ELSE IF s[i] = "\n" /\ i > 2 /\ s[i - 1] = "\n" /\ s[i - 2] = "\n"
    THEN sub_newlines(s, i + 1)
    ELSE <<s[i]>> \o sub_newlines(s, i + 1)

\* re.sub(r' {2,}', ' ', text): runs of spaces become one space
RECURSIVE sub_spaces(_, _)
sub_spaces(s, i) ==
    IF i > Len(s) THEN <<>>
    ELSE IF s[i] = " " /\ i > 1 /\ s[i - 1] = " " THEN sub_spaces(s, i + 1)
    ELSE <<s[i]>> \o sub_spaces(s, i + 1)

\* soup.text stands for soup.get_text(separator="\n", strip=True)
extract_text(soup) == truncate(sub_spaces(sub_newlines(soup.text, 1), 1))

\* the first loop of collect_pdf_links: the resolved hrefs that name a pdf
RECURSIVE pdf_loop(_, _, _)
pdf_loop(anchors, base_url, i) ==
    IF i > Len(anchors) THEN <<>>
    ELSE LET href == anchors[i].href
             href_l == lower(href)
             txt_l == lower(strip(anchors[i].text))
         IN  IF href = <<>> THEN pdf_loop(anchors, base_url, i + 1)
             ELSE IF EndsWith(href_l, <<".", "pdf">>) \/ Contains(<<"pdf">>, href_l)
                        \/ Contains(<<"pdf">>, txt_l)
             THEN <<urljoin(base_url, href)>> \o pdf_loop(anchors, base_url, i + 1)
             ELSE pdf_loop(anchors, base_url, i + 1)

\* the second loop: first occurrences only, in order
RECURSIVE pdf_dedup(_, _, _)
pdf_dedup(pdfs, i, seen) ==
    IF i > Len(pdfs) THEN <<>>
    ELSE IF pdfs[i] \in seen THEN pdf_dedup(pdfs, i + 1, seen)
    ELSE <<pdfs[i]>> \o pdf_dedup(pdfs, i + 1, seen \cup {pdfs[i]})

\* the cap applied before the duplicates are dropped
collect_pdf_links_cap_first(soup, base_url) ==
    LET pdfs == pdf_loop(soup.anchors, base_url, 1)
    IN  pdf_dedup(SubSeq(pdfs, 1, IF Len(pdfs) < 20 THEN Len(pdfs) ELSE 20), 1, {})

collect_pdf_links(soup, base_url) ==
    LET out == pdf_dedup(pdf_loop(soup.anchors, base_url, 1), 1, {})
    IN  SubSeq(out, 1, IF Len(out) < 20 THEN Len(out) ELSE 20)

Now == <<"now">>

\* the path built from the link text in the first place
raw_path_link_text_first(county, record) ==
    LET guess == Get(record, "program_name_guess", <<>>)
        ltext == Get(record, "link_text", <<>>)
        base == slugify(IF ltext # <<>> THEN ltext
                        ELSE IF guess # <<>> THEN guess ELSE <<"program">>)
        fname == base \o <<"-">> \o page_hash(Get(record, "page_url", <<>>))
                    \o <<".", "json">>
    IN  RAW_DIR \o <<"/">> \o slugify(county) \o <<"/">> \o fname

\* the path save_raw writes to
raw_path(county, record) ==
    LET guess == Get(record, "program_name_guess", <<>>)
        ltext == Get(record, "link_text", <<>>)
        base == slugify(IF guess # <<>> THEN guess
                        ELSE IF ltext # <<>> THEN ltext ELSE <<"program">>)
        fname == base \o <<"-">> \o page_hash(Get(record, "page_url", <<>>))
                    \o <<".", "json">>
    IN  RAW_DIR \o <<"/">> \o slugify(county) \o <<"/">> \o fname

\* save_raw: the record is written to its path, replacing a file already there
save_raw(county, record, store) ==
    [out |-> raw_path(county, record),
     store |-> (raw_path(county, record) :> record) @@ store]

\* the record process_program_page builds (the contacts found in the text
\* are left out)
page_record(county, program, url, soup) ==
    ("county" :> county) @@ ("page_url" :> url) @@
    ("link_text" :> Get(program, "link_text", <<>>)) @@
    ("program_name_guess" :> Get(program, "name", <<>>)) @@
    ("nav_path" :> Get(program, "nav_path", <<>>)) @@
    ("scraped_at" :> Now) @@
    ("text" :> extract_text(soup)) @@
    ("pdf_links" :> collect_pdf_links(soup, url))

\* process_program_page without the test of the fetched page
process_program_page_unchecked(county, program, get, store) ==
    LET url == Get(program, "url", <<>>)
        soup == extract_fetch_soup(get).soup
    IN  IF url = <<>> THEN [out |-> None, store |-> store]
        ELSE save_raw(county,
                      page_record(county, program, url,
                                  IF soup.ok THEN soup
                                  ELSE [ok |-> FALSE, anchors |-> <<>>, text |-> <<>>]),
                      store)

\* process_program_page(county, program) with the files on disk; get is what
\* the network does if a fetch is made
process_program_page(county, program, get, store) ==
    LET url == Get(program, "url", <<>>)
        soup == extract_fetch_soup(get).soup
    IN  IF url = <<>> THEN [out |-> None, store |-> store]
        ELSE IF ~soup.ok THEN [out |-> None, store |-> store]
        ELSE save_raw(county, page_record(county, program, url, soup), store)

\* pages as scraper_extract parses them: anchors and text
ExtractPages == {
    [ok |-> TRUE, anchors |-> <<>>, text |-> <<"W", "I", "C">>],
    [ok |-> TRUE,
     anchors |-> <<Anchor(<<"/", "docs", "/", "brochure", ".", "pdf">>, <<"Brochure">>),
                   Anchor(<<"/", "apply">>, <<"Apply", " ", "(", "PDF", ")">>),
                   Anchor(<<"/", "contact">>, <<"Contact", " ", "Us">>),
                   Anchor(<<"/", "docs", "/", "brochure", ".", "pdf">>, <<"PDF">>)>>,
     text |-> <<"a", " ", " ", "b", "\n", "\n", "\n", "\n", "c">>] }

\* what the network may do on a fetch of the extraction
ExtractGets ==
    {[error |-> "Timeout", status |-> 0, parses |-> FALSE, soup |-> FetchFailed]}
    \cup {[error |-> NoException, status |-> 404, parses |-> TRUE, soup |-> pg] :
            pg \in ExtractPages}
    \cup {[error |-> NoException, status |-> 200, parses |-> TRUE, soup |-> pg] :
            pg \in ExtractPages}

\* candidate programs as the discovery file lists them
PerinatalUrl == HTTPS \o <<"sf", ".", "gov", "/", "perinatal">>

CandidatePool == {
    [county |-> SanFrancisco,
     program |-> ("name" :> <<"WIC">>) @@ ("url" :> PerinatalUrl) @@
                 ("link_text" :> <<"WIC">>) @@ ("nav_path" :> NavFull)],
    [county |-> SanFrancisco,
     program |-> ("name" :> <<"WIC">>) @@ ("url" :> PerinatalUrl) @@
                 ("link_text" :> <<"Perinatal">>) @@ ("nav_path" :> NavDept)],
    [county |-> SanFrancisco,
     program |-> ("name" :> <<"Perinatal">>) @@ ("url" :> PerinatalUrl) @@
                 ("link_text" :> <<"Perinatal">>) @@ ("nav_path" :> NavFull)],
    [county |-> SanFrancisco,
     program |-> ("name" :> <<"WIC">>) @@
                 ("url" :> HTTPS \o <<"sf", ".", "gov", "/", "program", "/", "1">>) @@
                 ("link_text" :> <<"Program", " ", "1">>) @@ ("nav_path" :> NavDept)],
    [county |-> Alameda,
     program |-> ("name" :> <<>>) @@
                 ("url" :> HTTPS \o <<"www", ".", "acgov", ".", "org", "/", "services">>) @@
                 ("link_text" :> <<>>) @@ ("nav_path" :> NavDept)],
    [county |-> SanFrancisco,
     program |-> ("name" :> <<"WIC">>) @@ ("url" :> <<>>) @@
                 ("link_text" :> <<"WIC">>) @@ ("nav_path" :> NavFull)],
    [county |-> Alameda, program |-> ("name" :> <<"WIC">>)] }

ExtractInit ==
    /\ xpc = "loop"
    /\ candidates \in SeqsUpTo(CandidatePool, MaxPages)
    /\ xi = 1
    /\ raw_files = EmptyDict
    /\ x_log = <<>>

ExtractIdle ==
    /\ xpc = "idle"
    /\ candidates = <<>>
    /\ xi = 1
    /\ raw_files = EmptyDict
    /\ x_log = <<>>

\* one turn of the loop of main: process_program_page in its try block
ProcessProgramPage ==
    /\ xpc = "loop" /\ xi <= Len(candidates)
    /\ \E get \in ExtractGets :
        \E r \in {process_program_page(candidates[xi].county, candidates[xi].program,
                                       get, raw_files)} :
            LET url == Get(candidates[xi].program, "url", <<>>)
            IN  /\ raw_files' = r.store
                /\ x_log' = Append(x_log,
                        [county |-> candidates[xi].county,
                         url |-> url,
                         fetched |-> url # <<>>,
                         ok |-> url # <<>> /\ extract_fetch_soup(get).soup.ok,
                         out |-> r.out])
    /\ xi' = xi + 1
    /\ UNCHANGED <<xpc, candidates>>

\* the loop is over: the summary is printed
FinishExtract ==
    /\ xpc = "loop" /\ xi > Len(candidates)
    /\ xpc' = "done"
    /\ UNCHANGED <<candidates, xi, raw_files, x_log>>

-----------------------------------------------------------------------------
(* the truncation of extract_text on its own *)

\* n times the character c
Fill(n, c) == [i \in 1..n |-> c]

TextLengths ==
    (0..TextOver)
    \cup ((MAX_TEXT_CHARS - TextOver)..(MAX_TEXT_CHARS + TextOver))
    \cup ((MAX_TEXT_CHARS - Len(TRUNCATION_MARKER) - TextOver)
            ..(MAX_TEXT_CHARS - Len(TRUNCATION_MARKER) + TextOver))

\* texts below, at and above the budget, some ending in the marker already
Texts ==
    {Fill(n, c) \o tail :
        n \in TextLengths, c \in {"a", "\n"},
        tail \in {<<>>, <<"z">>, TRUNCATION_MARKER}}

TextIdle ==
    /\ tx_text = <<>>
    /\ tx_out = <<>>
    /\ tx_again = <<>>
    /\ tx_pc = "idle"

TextInit ==
    /\ tx_text \in Texts
    /\ tx_out = <<>>
    /\ tx_again = <<>>
    /\ tx_pc = "called"

Truncate ==
    /\ tx_pc = "called"
    /\ tx_out' = truncate(tx_text)
    /\ tx_pc' = "returned"
    /\ UNCHANGED <<tx_text, tx_again>>

TruncateAgain ==
    /\ tx_pc = "returned"
    /\ tx_again' = truncate(tx_out)
    /\ tx_pc' = "again"
    /\ UNCHANGED <<tx_text, tx_out>>

-----------------------------------------------------------------------------
(* collect_pdf_links on its own *)

PdfAnchor(i) ==
    Anchor(<<"/", "docs", "/", ToString(i), ".", "pdf">>, <<"Brochure", " ", ToString(i)>>)

\* a page of k pdf anchors with another anchor after each: a repetition of
\* one of the first two pdf anchors after every d-th, else a link that is no
\* pdf (d > 0) or an anchor with an empty href (d = 0)
PdfPage(k, d) ==
    [ok |-> TRUE,
     text |-> <<>>,
     anchors |->
        [j \in 1..(2 * k) |->
            IF j % 2 = 1 THEN PdfAnchor((j + 1) \div 2)
            ELSE IF d > 0 /\ (j \div 2) % d = 0 THEN PdfAnchor(1 + ((j \div 2) % 2))
            ELSE IF d > 0 THEN Anchor(<<"/", "contact">>, <<"Contact", " ", "Us">>)
            ELSE Anchor(<<>>, <<"PDF">>)]]

PdfPages ==
    ExtractPages \cup {PdfPage(k, d) : k \in 0..(20 + PdfOver), d \in {0, 1, 3}}

PdfIdle ==
    /\ pd_soup = [ok |-> TRUE, text |-> <<>>, anchors |-> <<>>]
    /\ pd_base = <<>>
    /\ pd_out = <<>>
    /\ pd_pc = "idle"

PdfInit ==
    /\ pd_soup \in PdfPages
    /\ pd_base \in {PerinatalUrl,
                    HTTPS \o <<"www", ".", "acgov", ".", "org", "/", "services", "/">>}
    /\ pd_out = <<>>
    /\ pd_pc = "called"

CollectPdfLinks ==
    /\ pd_pc = "called"
    /\ pd_out' = collect_pdf_links(pd_soup, pd_base)
    /\ pd_pc' = "returned"
    /\ UNCHANGED <<pd_soup, pd_base>>

-----------------------------------------------------------------------------
(* scraper.py main: one fetch and one collaborator call per county *)

DELAY_BETWEEN_REQUESTS == 3

\* counties_to_process: the first n items of the county directory, the two
\* entries of the model's directory standing in turn for the entries of the
\* real one
counties_to_process(n) ==
    [j \in 1..n |->
        IF j % 2 = 1 THEN <<Alameda, CALIFORNIA_COUNTIES[Alameda]>>
        ELSE <<SanFrancisco, CALIFORNIA_COUNTIES[SanFrancisco]>>]

\* what extract_data returns for a county: None, or the county record the
\* collaborator's answer parses to
ScraperData(name, url) == {
    EmptyDict,
    ("county_name" :> name) @@ ("county_website_url" :> url) @@
      ("health_department_name" :> <<"Public Health">>) @@
      ("programs" :> <<ProgramWic>>),
    ("county_name" :> name) @@ ("programs" :> <<>>) }

\* the events of the trace
RequestsGet == "requests.get"
CollaboratorCall == "collaborator"
Sleep(seconds) == "sleep " \o ToString(seconds)

ScraperIdle ==
    /\ sm_pc = "idle"
    /\ sm_counties = <<>>
    /\ sm_i = 0
    /\ sm_results = <<>>
    /\ sm_successful = 0
    /\ sm_failed = 0
    /\ sm_trace = <<>>
    /\ sm_csv = None

ScraperInit ==
    /\ sm_pc = "start"
    /\ sm_counties \in {counties_to_process(n) : n \in 1..MaxCounties}
    /\ sm_i = 1
    /\ sm_results = <<>>
    /\ sm_successful = 0
    /\ sm_failed = 0
    /\ sm_trace = <<>>
    /\ sm_csv = None

\* lines 475-483: without the provider's API key main returns at once
CheckApiKey ==
    /\ sm_pc = "start"
    /\ \E key \in BOOLEAN : sm_pc' = IF key THEN "loop" ELSE "done"
    /\ UNCHANGED <<sm_counties, sm_i, sm_results, sm_successful, sm_failed, sm_trace, sm_csv>>

\* lines 498-508: scrape_website gave no content; "continue" goes to the next
\* county
CouldNotFetch ==
    /\ sm_pc = "loop"
    /\ sm_i <= Len(sm_counties)
    /\ sm_trace' = Append(sm_trace, RequestsGet)
    /\ sm_failed' = sm_failed + 1
    /\ sm_i' = sm_i + 1
    /\ UNCHANGED <<sm_pc, sm_counties, sm_results, sm_successful, sm_csv>>

\* lines 498-533: the page is fetched, extract_data is called on its
\* content, and the loop sleeps
ExtractData ==
    /\ sm_pc = "loop"
    /\ sm_i <= Len(sm_counties)
    /\ \E data \in ScraperData(sm_counties[sm_i][1], sm_counties[sm_i][2]) :
          IF data # EmptyDict
          THEN /\ sm_results' = Append(sm_results, data)
               /\ sm_successful' = sm_successful + 1
               /\ UNCHANGED sm_failed
          ELSE /\ sm_failed' = sm_failed + 1
               /\ UNCHANGED <<sm_results, sm_successful>>
    /\ sm_trace' = sm_trace \o <<RequestsGet, CollaboratorCall, Sleep(DELAY_BETWEEN_REQUESTS)>>
    /\ sm_i' = sm_i + 1
    /\ UNCHANGED <<sm_pc, sm_counties, sm_csv>>

\* lines 535-551: after the loop the results, if any, are written
SaveResults ==
    /\ sm_pc = "loop"
    /\ sm_i > Len(sm_counties)
    /\ sm_csv' = IF sm_results # <<>> THEN save_to_csv(sm_results) ELSE sm_csv
    /\ sm_pc' = "done"
    /\ UNCHANGED <<sm_counties, sm_i, sm_results, sm_successful, sm_failed, sm_trace>>

-----------------------------------------------------------------------------
(* The phase mains: loading the discovery file, the loop, the console *)

\* Only the control flow of scraper_extract.main, scraper_structure.main and
\* run_phase_3 is kept here: which branch each item takes, what is printed,
\* whether a fetch or a collaborator call is made and whether a record comes
\* out of it.  The records themselves are modelled in the sections above.

Mains == {"extract_main", "structure_main", "run_phase_3"}

\* os.path.exists and json.load on data/discovery_results.json
DiscoveryFileStates == {"present", "missing", "unreadable"}

\* the items of each loop.  extract_main: the candidate programs, with or
\* without a url.  structure_main: the raw files globbed, json.load working
\* on them or not.  run_phase_3: the same inside the county directories,
\* also the directory entries that are no .json file, and the counties of
\* the discovery results that have no directory under data/raw
ItemKinds(main) ==
    IF main = "extract_main" THEN {"candidate", "candidate without url"}
    ELSE IF main = "structure_main" THEN {"raw file", "unreadable raw file"}
    ELSE {"raw file", "unreadable raw file", "other file", "county without directory"}

\* the lines printed
CannotLoad == "Cannot load discovery results"
RunDiscovery == "Run: python scraper_discovery.py"
NoRawPages == "No raw pages found. Run Phase 2 first: python scraper_extract.py"
SavedLine == "Saved"
SkippedFetchFailed == "Skipped (fetch failed)"
ErrorLine == "Error"
FailedToRead == "Failed to read"
NoResultLine == "No result"
Structured == "Structured"
Summary == "Summary"

\* a line about item k of the loop; k = 0 for a line about no item
Line(k, text) == [item |-> k, text |-> text]

PhaseIdle ==
    /\ ph_main = "extract_main"
    /\ ph_disc = "present"
    /\ ph_items = <<>>
    /\ ph_i = 1
    /\ ph_pc = "idle"
    /\ ph_console = <<>>
    /\ ph_calls = 0
    /\ ph_records = 0
    /\ ph_written = FALSE

\* run_phase_3 is handed the discovery results by its caller; the candidates
\* of extract_main are those of the discovery file, none without it; the raw
\* files on disk do not depend on the discovery file
PhaseInit ==
    /\ ph_main \in Mains
    /\ ph_disc \in DiscoveryFileStates
    /\ (ph_main = "run_phase_3") => ph_disc = "present"
    /\ ph_items \in SeqsUpTo(ItemKinds(ph_main), MaxItems)
    /\ (ph_main = "extract_main" /\ ph_disc # "present") => ph_items = <<>>
    /\ ph_i = 1
    /\ ph_pc = "start"
    /\ ph_console = <<>>
    /\ ph_calls = 0
    /\ ph_records = 0
    /\ ph_written = FALSE

\* scraper_extract.main, lines 161-166: load_discovery raises on a missing
\* file and on one json.load cannot read; both are caught and reported
ExtractLoadDiscovery ==
    /\ ph_pc = "start" /\ ph_main = "extract_main"
    /\ IF ph_disc = "present"
       THEN /\ ph_pc' = "loop"
            /\ UNCHANGED ph_console
       ELSE /\ ph_pc' = "done"
            /\ ph_console' = ph_console \o <<Line(0, CannotLoad), Line(0, RunDiscovery)>>
    /\ UNCHANGED <<ph_main, ph_disc, ph_items, ph_i, ph_calls, ph_records, ph_written>>

\* scraper_structure.main, lines 145-149, with load_discovery, lines 46-53:
\* a missing file gives an empty county_meta, json.load raises on an
\* unreadable one and nothing catches it; then the raw files are listed
StructureLoadDiscovery ==
    /\ ph_pc = "start" /\ ph_main = "structure_main"
    /\ IF ph_disc = "unreadable"
       THEN /\ ph_pc' = "raised"
            /\ UNCHANGED ph_console
       ELSE IF ph_items = <<>>
       THEN /\ ph_pc' = "done"
            /\ ph_console' = Append(ph_console, Line(0, NoRawPages))
       ELSE /\ ph_pc' = "loop"
            /\ UNCHANGED ph_console
    /\ UNCHANGED <<ph_main, ph_disc, ph_items, ph_i, ph_calls, ph_records, ph_written>>

\* run_phase_3, lines 93-98: county_meta is built from the argument
Phase3Start ==
    /\ ph_pc = "start" /\ ph_main = "run_phase_3"
    /\ ph_pc' = "loop"
    /\ UNCHANGED <<ph_main, ph_disc, ph_items, ph_i, ph_console, ph_calls, ph_records, ph_written>>

\* scraper_extract.main, lines 173-182: one candidate.  Without a url
\* process_program_page returns None before any fetch; a failed fetch gives
\* None; otherwise the record is saved, unless writing it raises
ExtractItem ==
    /\ ph_pc = "loop" /\ ph_main = "extract_main" /\ ph_i <= Len(ph_items)
    /\ \E outcome \in IF ph_items[ph_i] = "candidate without url" THEN {"no url"}
                      ELSE {"fetch failed", "saved", "raised"} :
        /\ ph_calls' = IF outcome = "no url" THEN ph_calls ELSE ph_calls + 1
        /\ ph_records' = IF outcome = "saved" THEN ph_records + 1 ELSE ph_records
        /\ ph_console' = Append(ph_console,
                Line(ph_i, IF outcome = "saved" THEN SavedLine
                           ELSE IF outcome = "raised" THEN ErrorLine
                           ELSE SkippedFetchFailed))
    /\ ph_i' = ph_i + 1
    /\ UNCHANGED <<ph_main, ph_disc, ph_items, ph_pc, ph_written>>

\* scraper_structure.main, lines 153-188, and run_phase_3, lines 107-139:
\* one raw file
StructureItem ==
    /\ ph_pc = "loop" /\ ph_main \in {"structure_main", "run_phase_3"}
    /\ ph_i <= Len(ph_items)
    /\ ph_items[ph_i] \in {"raw file", "unreadable raw file"}
    /\ \E outcome \in IF ph_items[ph_i] = "unreadable raw file" THEN {"unreadable"}
                      ELSE {"no result", "result"} :
        /\ ph_calls' = IF outcome = "unreadable" THEN ph_calls ELSE ph_calls + 1
        /\ ph_records' = IF outcome = "result" THEN ph_records + 1 ELSE ph_records
        /\ ph_console' = Append(ph_console,
                Line(ph_i, IF outcome = "unreadable" THEN FailedToRead
                           ELSE IF outcome = "result" THEN Structured
                           ELSE NoResultLine))
    /\ ph_i' = ph_i + 1
    /\ UNCHANGED <<ph_main, ph_disc, ph_items, ph_pc, ph_written>>

\* the collaborator's JSON is truthy but no object: result.get raises outside
\* any try, after the call
StructureItemRaises ==
    /\ ph_pc = "loop" /\ ph_main \in {"structure_main", "run_phase_3"}
    /\ ph_i <= Len(ph_items)
    /\ ph_items[ph_i] = "raw file"
    /\ ph_calls' = ph_calls + 1
    /\ ph_pc' = "raised"
    /\ UNCHANGED <<ph_main, ph_disc, ph_items, ph_i, ph_console, ph_records, ph_written>>

\* run_phase_3, lines 100-108: a county without a directory under data/raw
\* and a directory entry that is no .json file are passed over by "continue"
Phase3Continue ==
    /\ ph_pc = "loop" /\ ph_main = "run_phase_3" /\ ph_i <= Len(ph_items)
    /\ ph_items[ph_i] \in {"other file", "county without directory"}
    /\ ph_i' = ph_i + 1
    /\ UNCHANGED <<ph_main, ph_disc, ph_items, ph_pc, ph_console, ph_calls, ph_records, ph_written>>

\* after the loop: extract_main prints its totals; the structuring mains
\* write the CSV files if a result was merged and report it either way
PhaseFinish ==
    /\ ph_pc = "loop" /\ ph_i > Len(ph_items)
    /\ ph_written' = (ph_main # "extract_main" /\ ph_records > 0)
    /\ ph_console' = Append(ph_console, Line(0, Summary))
    /\ ph_pc' = "done"
    /\ UNCHANGED <<ph_main, ph_disc, ph_items, ph_i, ph_calls, ph_records>>

-----------------------------------------------------------------------------
(* collect_program_links on its own *)

\* anchors of a seed page: one url under two texts of different score, links
\* to social-media hosts that name a program, a mail link, a link that names
\* nothing
CollectPool == {
    Anchor(<<"/", "program", "/", "1">>, <<"Program", " ", "1">>),
    Anchor(<<"/", "program", "/", "1">>, <<"WIC">>),
    Anchor(<<"/", "about">>, <<"WIC">>),
    Anchor(HTTPS \o <<"www", ".", "facebook", ".", "com", "/", "perinatal">>, <<"WIC">>),
    Anchor(HTTPS \o <<"www", ".", "Facebook", ".", "com", "/", "sfdph">>, <<"WIC">>),
    Anchor(<<"mailto", ":", "wic", "@", "sf", ".", "gov">>, <<"WIC">>),
    Anchor(<<"/", "contact">>, <<"Contact", " ", "Us">>) }

\* a long list of program links followed by d anchors that repeat its first
\* urls under the text "WIC"
RepeatPage(k, d) ==
    ListPage(k) \o [i \in 1..d |-> Anchor(<<"/", "program", "/", ToString(i)>>, <<"WIC">>)]

CollectPages ==
    SeqsUpTo(CollectPool, MaxCollect)
    \cup {RepeatPage(k, d) : k \in (MaxLinks - 2)..(MaxLinks + OverCap), d \in 0..2}

CollectIdle ==
    /\ cp_soup = FetchFailed
    /\ cp_seed = <<>>
    /\ cp_out = <<>>
    /\ cp_pc = "idle"

CollectInit ==
    /\ cp_soup \in {FetchFailed} \cup {[ok |-> TRUE, anchors |-> a] : a \in CollectPages}
    /\ cp_seed \in {HTTPS \o <<"sf", ".", "gov", "/", "health">>,
                    HTTPS \o <<"www", ".", "acgov", ".", "org", "/", "mcah", "/">>}
    /\ cp_out = <<>>
    /\ cp_pc = "called"

CollectProgramLinksAlone ==
    /\ cp_pc = "called"
    /\ cp_out' = collect_program_links(cp_soup, cp_seed)
    /\ cp_pc' = "returned"
    /\ UNCHANGED <<cp_soup, cp_seed>>

-----------------------------------------------------------------------------
(* run_pipeline.py: the raw directory of a county in Phase 2 and Phase 3 *)

\* the keys of CALIFORNIA_COUNTIES, as sequences of characters
COUNTY_NAMES == {
    <<"A", "l", "a", "m", "e", "d", "a">>,
    <<"A", "l", "p", "i", "n", "e">>,
    <<"A", "m", "a", "d", "o", "r">>,
    <<"B", "u", "t", "t", "e">>,
    <<"C", "a", "l", "a", "v", "e", "r", "a", "s">>,
    <<"C", "o", "l", "u", "s", "a">>,
    <<"C", "o", "n", "t", "r", "a", " ", "C", "o", "s", "t", "a">>,
    <<"D", "e", "l", " ", "N", "o", "r", "t", "e">>,
    <<"E", "l", " ", "D", "o", "r", "a", "d", "o">>,
    <<"F", "r", "e", "s", "n", "o">>,
    <<"G", "l", "e", "n", "n">>,
    <<"H", "u", "m", "b", "o", "l", "d", "t">>,
    <<"I", "m", "p", "e", "r", "i", "a", "l">>,
    <<"I", "n", "y", "o">>,
    <<"K", "e", "r", "n">>,
    <<"K", "i", "n", "g", "s">>,
    <<"L", "a", "k", "e">>,
    <<"L", "a", "s", "s", "e", "n">>,
    <<"L", "o", "s", " ", "A", "n", "g", "e", "l", "e", "s">>,
    <<"M", "a", "d", "e", "r", "a">>,
    <<"M", "a", "r", "i", "n">>,
    <<"M", "a", "r", "i", "p", "o", "s", "a">>,
    <<"M", "e", "n", "d", "o", "c", "i", "n", "o">>,
    <<"M", "e", "r", "c", "e", "d">>,
    <<"M", "o", "d", "o", "c">>,
    <<"M", "o", "n", "o">>,
    <<"M", "o", "n", "t", "e", "r", "e", "y">>,
    <<"N", "a", "p", "a">>,
    <<"N", "e", "v", "a", "d", "a">>,
    <<"O", "r", "a", "n", "g", "e">>,
    <<"P", "l", "a", "c", "e", "r">>,
    <<"P", "l", "u", "m", "a", "s">>,
    <<"R", "i", "v", "e", "r", "s", "i", "d", "e">>,
    <<"S", "a", "c", "r", "a", "m", "e", "n", "t", "o">>,
    <<"S", "a", "n", " ", "B", "e", "n", "i", "t", "o">>,
    <<"S", "a", "n", " ", "B", "e", "r", "n", "a", "r", "d", "i", "n", "o">>,
    <<"S", "a", "n", " ", "D", "i", "e", "g", "o">>,
    <<"S", "a", "n", " ", "F", "r", "a", "n", "c", "i", "s", "c", "o">>,
    <<"S", "a", "n", " ", "J", "o", "a", "q", "u", "i", "n">>,
    <<"S", "a", "n", " ", "L", "u", "i", "s", " ", "O", "b", "i", "s", "p", "o">>,
    <<"S", "a", "n", " ", "M", "a", "t", "e", "o">>,
    <<"S", "a", "n", "t", "a", " ", "B", "a", "r", "b", "a", "r", "a">>,
    <<"S", "a", "n", "t", "a", " ", "C", "l", "a", "r", "a">>,
    <<"S", "a", "n", "t", "a", " ", "C", "r", "u", "z">>,
    <<"S", "h", "a", "s", "t", "a">>,
    <<"S", "i", "e", "r", "r", "a">>,
    <<"S", "i", "s", "k", "i", "y", "o", "u">>,
    <<"S", "o", "l", "a", "n", "o">>,
    <<"S", "o", "n", "o", "m", "a">>,
    <<"S", "t", "a", "n", "i", "s", "l", "a", "u", "s">>,
    <<"S", "u", "t", "t", "e", "r">>,
    <<"T", "e", "h", "a", "m", "a">>,
    <<"T", "r", "i", "n", "i", "t", "y">>,
    <<"T", "u", "l", "a", "r", "e">>,
    <<"T", "u", "o", "l", "u", "m", "n", "e">>,
    <<"V", "e", "n", "t", "u", "r", "a">>,
    <<"Y", "o", "l", "o">>,
    <<"Y", "u", "b", "a">> }

\* str.replace(old, new) for a single character old
replace(s, old, new) == [i \in 1..Len(s) |-> IF s[i] = old THEN new ELSE s[i]]

\* run_phase_3's slug without lower()
county_slug_no_lower(county) == replace(strip(county), " ", "-")

\* county.strip().lower().replace(" ", "-")
county_slug(county) == replace(lower(strip(county)), " ", "-")

\* os.path.join(RAW_DIR, county_slug) in run_pipeline.py
county_dir(county) == <<"data", "/", "raw">> \o <<"/">> \o county_slug(county)

\* os.path.dirname
dirname(path) == SubSeq(path, 1, LastSlash(path, Len(path)) - 1)

\* os.listdir(county_dir), the names ending in ".json" kept
listdir_json(store, dir) ==
    {p \in DOMAIN store : dirname(p) = dir /\ EndsWith(p, <<".", "json">>)}

\* the records Phase 2 may save for a county
DirRecords(county) == {
    ("county" :> county) @@ ("page_url" :> PerinatalUrl) @@
      ("link_text" :> <<"WIC">>) @@ ("program_name_guess" :> <<"WIC">>),
    ("county" :> county) @@
      ("page_url" :> HTTPS \o <<"sf", ".", "gov", "/", "program", "/", "1">>) @@
      ("link_text" :> <<>>) @@ ("program_name_guess" :> <<>>) }

DirIdle ==
    /\ dr_county = <<>>
    /\ dr_store = EmptyDict
    /\ dr_dir = None
    /\ dr_read = {}
    /\ dr_pc = "idle"

DirInit ==
    /\ dr_county \in COUNTY_NAMES
    /\ dr_store = EmptyDict
    /\ dr_dir = None
    /\ dr_read = {}
    /\ dr_pc = "phase2"

\* run_phase_2: a page of the county is fetched and save_raw writes it
Phase2Saves ==
    /\ dr_pc = "phase2"
    /\ \E record \in DirRecords(dr_county) :
        dr_store' = save_raw(dr_county, record, dr_store).store
    /\ UNCHANGED <<dr_county, dr_dir, dr_read, dr_pc>>

\* run_phase_2 is over
Phase2Ends ==
    /\ dr_pc = "phase2"
    /\ dr_pc' = "phase3"
    /\ UNCHANGED <<dr_county, dr_store, dr_dir, dr_read>>

\* run_phase_3, lines 100-108: the county's directory and the files read in it
Phase3Lists ==
    /\ dr_pc = "phase3"
    /\ dr_dir' = county_dir(dr_county)
    /\ dr_read' = listdir_json(dr_store, county_dir(dr_county))
    /\ dr_pc' = "done"
    /\ UNCHANGED <<dr_county, dr_store>>

-----------------------------------------------------------------------------
(* Specifications *)

DiscoveryIdle ==
    /\ county_name = Alameda
    /\ county_root_url = CALIFORNIA_COUNTIES[Alameda]
    /\ pc = "idle"
    /\ result = EmptyDict
    /\ dept = None
    /\ mch = None
    /\ fetched = <<>>
    /\ links = None

\* one county's discovery
Init ==
    /\ DiscoveryInit
    /\ ChooseIdle
    /\ StructureIdle
    /\ LinkIdle
    /\ FetchIdle
    /\ ExtractIdle
    /\ TextIdle
    /\ PdfIdle
    /\ ScraperIdle
    /\ PhaseIdle
    /\ CollectIdle
    /\ DirIdle

Next ==
    \/ FindHealthDeptPage /\ UNCHANGED <<chooseVars, structureVars, linkVars, fetchVars, extractVars, textVars, pdfVars, scraperVars, phaseVars, collectVars, dirVars>>
    \/ FindMaternalSection /\ UNCHANGED <<chooseVars, structureVars, linkVars, fetchVars, extractVars, textVars, pdfVars, scraperVars, phaseVars, collectVars, dirVars>>
    \/ CollectProgramLinks /\ UNCHANGED <<chooseVars, structureVars, linkVars, fetchVars, extractVars, textVars, pdfVars, scraperVars, phaseVars, collectVars, dirVars>>

Spec == Init /\ [][Next]_vars

\* the selection of one best link
InitChoose ==
    /\ DiscoveryIdle
    /\ ChooseInit
    /\ StructureIdle
    /\ LinkIdle
    /\ FetchIdle
    /\ ExtractIdle
    /\ TextIdle
    /\ PdfIdle
    /\ ScraperIdle
    /\ PhaseIdle
    /\ CollectIdle
    /\ DirIdle

NextChoose ==
    \/ ChooseBestLink /\ UNCHANGED <<discoveryVars, structureVars, linkVars, fetchVars, extractVars, textVars, pdfVars, scraperVars, phaseVars, collectVars, dirVars>>

SpecChoose == InitChoose /\ [][NextChoose]_vars

\* the structuring loop and the CSV files it writes
InitStructure ==
    /\ DiscoveryIdle
    /\ ChooseIdle
    /\ StructureInit
    /\ LinkIdle
    /\ FetchIdle
    /\ ExtractIdle
    /\ TextIdle
    /\ PdfIdle
    /\ ScraperIdle
    /\ PhaseIdle
    /\ CollectIdle
    /\ DirIdle

NextStructure ==
    \/ SkipUnreadable /\ UNCHANGED <<discoveryVars, chooseVars, linkVars, fetchVars, extractVars, textVars, pdfVars, scraperVars, phaseVars, collectVars, dirVars>>
    \/ SkipNoResult /\ UNCHANGED <<discoveryVars, chooseVars, linkVars, fetchVars, extractVars, textVars, pdfVars, scraperVars, phaseVars, collectVars, dirVars>>
    \/ MergeResult /\ UNCHANGED <<discoveryVars, chooseVars, linkVars, fetchVars, extractVars, textVars, pdfVars, scraperVars, phaseVars, collectVars, dirVars>>
    \/ MergeRaises /\ UNCHANGED <<discoveryVars, chooseVars, linkVars, fetchVars, extractVars, textVars, pdfVars, scraperVars, phaseVars, collectVars, dirVars>>
    \/ WriteCsv /\ UNCHANGED <<discoveryVars, chooseVars, linkVars, fetchVars, extractVars, textVars, pdfVars, scraperVars, phaseVars, collectVars, dirVars>>

SpecStructure == InitStructure /\ [][NextStructure]_vars

\* score_link and is_same_domain applied to one link
InitLink ==
    /\ DiscoveryIdle
    /\ ChooseIdle
    /\ StructureIdle
    /\ LinkInit
    /\ FetchIdle
    /\ ExtractIdle
    /\ TextIdle
    /\ PdfIdle
    /\ ScraperIdle
    /\ PhaseIdle
    /\ CollectIdle
    /\ DirIdle

NextLink ==
    \/ ScoreLink /\ UNCHANGED <<discoveryVars, chooseVars, structureVars, fetchVars, extractVars, textVars, pdfVars, scraperVars, phaseVars, collectVars, dirVars>>
    \/ IsSameDomain /\ UNCHANGED <<discoveryVars, chooseVars, structureVars, fetchVars, extractVars, textVars, pdfVars, scraperVars, phaseVars, collectVars, dirVars>>

SpecLink == InitLink /\ [][NextLink]_vars

\* one call of fetch_soup
InitFetch ==
    /\ DiscoveryIdle
    /\ ChooseIdle
    /\ StructureIdle
    /\ LinkIdle
    /\ FetchInit
    /\ ExtractIdle
    /\ TextIdle
    /\ PdfIdle
    /\ ScraperIdle
    /\ PhaseIdle
    /\ CollectIdle
    /\ DirIdle

NextFetch ==
    \/ FetchSoup /\ UNCHANGED <<discoveryVars, chooseVars, structureVars, linkVars, extractVars, textVars, pdfVars, scraperVars, phaseVars, collectVars, dirVars>>

SpecFetch == InitFetch /\ [][NextFetch]_vars

\* the extraction loop and the raw-page files it writes
InitExtract ==
    /\ DiscoveryIdle
    /\ ChooseIdle
    /\ StructureIdle
    /\ LinkIdle
    /\ FetchIdle
    /\ ExtractInit
    /\ TextIdle
    /\ PdfIdle
    /\ ScraperIdle
    /\ PhaseIdle
    /\ CollectIdle
    /\ DirIdle

NextExtract ==
    \/ ProcessProgramPage /\ UNCHANGED <<discoveryVars, chooseVars, structureVars, linkVars, fetchVars, textVars, pdfVars, scraperVars, phaseVars, collectVars, dirVars>>
    \/ FinishExtract /\ UNCHANGED <<discoveryVars, chooseVars, structureVars, linkVars, fetchVars, textVars, pdfVars, scraperVars, phaseVars, collectVars, dirVars>>

SpecExtract == InitExtract /\ [][NextExtract]_vars

\* the truncation of one text, applied twice
InitText ==
    /\ DiscoveryIdle
    /\ ChooseIdle
    /\ StructureIdle
    /\ LinkIdle
    /\ FetchIdle
    /\ ExtractIdle
    /\ TextInit
    /\ PdfIdle
    /\ ScraperIdle
    /\ PhaseIdle
    /\ CollectIdle
    /\ DirIdle

NextText ==
    \/ Truncate /\ UNCHANGED <<discoveryVars, chooseVars, structureVars, linkVars, fetchVars, extractVars, pdfVars, scraperVars, phaseVars, collectVars, dirVars>>
    \/ TruncateAgain /\ UNCHANGED <<discoveryVars, chooseVars, structureVars, linkVars, fetchVars, extractVars, pdfVars, scraperVars, phaseVars, collectVars, dirVars>>

SpecText == InitText /\ [][NextText]_vars

\* collect_pdf_links applied to one page
InitPdf ==
    /\ DiscoveryIdle
    /\ ChooseIdle
    /\ StructureIdle
    /\ LinkIdle
    /\ FetchIdle
    /\ ExtractIdle
    /\ TextIdle
    /\ PdfInit
    /\ ScraperIdle
    /\ PhaseIdle
    /\ CollectIdle
    /\ DirIdle

NextPdf ==
    \/ CollectPdfLinks /\ UNCHANGED <<discoveryVars, chooseVars, structureVars, linkVars, fetchVars, extractVars, textVars, scraperVars, phaseVars, collectVars, dirVars>>

SpecPdf == InitPdf /\ [][NextPdf]_vars

\* the single-pass scraper's county loop
InitScraper ==
    /\ DiscoveryIdle
    /\ ChooseIdle
    /\ StructureIdle
    /\ LinkIdle
    /\ FetchIdle
    /\ ExtractIdle
    /\ TextIdle
    /\ PdfIdle
    /\ ScraperInit
    /\ PhaseIdle
    /\ CollectIdle
    /\ DirIdle

NextScraper ==
    \/ CheckApiKey /\ UNCHANGED <<discoveryVars, chooseVars, structureVars, linkVars, fetchVars, extractVars, textVars, pdfVars, phaseVars, collectVars, dirVars>>
    \/ CouldNotFetch /\ UNCHANGED <<discoveryVars, chooseVars, structureVars, linkVars, fetchVars, extractVars, textVars, pdfVars, phaseVars, collectVars, dirVars>>
    \/ ExtractData /\ UNCHANGED <<discoveryVars, chooseVars, structureVars, linkVars, fetchVars, extractVars, textVars, pdfVars, phaseVars, collectVars, dirVars>>
    \/ SaveResults /\ UNCHANGED <<discoveryVars, chooseVars, structureVars, linkVars, fetchVars, extractVars, textVars, pdfVars, phaseVars, collectVars, dirVars>>

SpecScraper == InitScraper /\ [][NextScraper]_vars

\* the phase mains: discovery file, loop and console
InitPhase ==
    /\ DiscoveryIdle
    /\ ChooseIdle
    /\ StructureIdle
    /\ LinkIdle
    /\ FetchIdle
    /\ ExtractIdle
    /\ TextIdle
    /\ PdfIdle
    /\ ScraperIdle
    /\ PhaseInit
    /\ CollectIdle
    /\ DirIdle

NextPhase ==
    \/ ExtractLoadDiscovery /\ UNCHANGED <<discoveryVars, chooseVars, structureVars, linkVars, fetchVars, extractVars, textVars, pdfVars, scraperVars, collectVars, dirVars>>
    \/ StructureLoadDiscovery /\ UNCHANGED <<discoveryVars, chooseVars, structureVars, linkVars, fetchVars, extractVars, textVars, pdfVars, scraperVars, collectVars, dirVars>>
    \/ Phase3Start /\ UNCHANGED <<discoveryVars, chooseVars, structureVars, linkVars, fetchVars, extractVars, textVars, pdfVars, scraperVars, collectVars, dirVars>>
    \/ ExtractItem /\ UNCHANGED <<discoveryVars, chooseVars, structureVars, linkVars, fetchVars, extractVars, textVars, pdfVars, scraperVars, collectVars, dirVars>>
    \/ StructureItem /\ UNCHANGED <<discoveryVars, chooseVars, structureVars, linkVars, fetchVars, extractVars, textVars, pdfVars, scraperVars, collectVars, dirVars>>
    \/ StructureItemRaises /\ UNCHANGED <<discoveryVars, chooseVars, structureVars, linkVars, fetchVars, extractVars, textVars, pdfVars, scraperVars, collectVars, dirVars>>
    \/ Phase3Continue /\ UNCHANGED <<discoveryVars, chooseVars, structureVars, linkVars, fetchVars, extractVars, textVars, pdfVars, scraperVars, collectVars, dirVars>>
    \/ PhaseFinish /\ UNCHANGED <<discoveryVars, chooseVars, structureVars, linkVars, fetchVars, extractVars, textVars, pdfVars, scraperVars, collectVars, dirVars>>

SpecPhase == InitPhase /\ [][NextPhase]_vars

\* collect_program_links applied to one seed page
InitCollect ==
    /\ DiscoveryIdle
    /\ ChooseIdle
    /\ StructureIdle
    /\ LinkIdle
    /\ FetchIdle
    /\ ExtractIdle
    /\ TextIdle
    /\ PdfIdle
    /\ ScraperIdle
    /\ PhaseIdle
    /\ CollectInit
    /\ DirIdle

NextCollect ==
    \/ CollectProgramLinksAlone /\ UNCHANGED <<discoveryVars, chooseVars, structureVars, linkVars, fetchVars, extractVars, textVars, pdfVars, scraperVars, phaseVars, dirVars>>

SpecCollect == InitCollect /\ [][NextCollect]_vars

\* the raw directory of one county through Phase 2 and Phase 3
InitDir ==
    /\ DiscoveryIdle
    /\ ChooseIdle
    /\ StructureIdle
    /\ LinkIdle
    /\ FetchIdle
    /\ ExtractIdle
    /\ TextIdle
    /\ PdfIdle
    /\ ScraperIdle
    /\ PhaseIdle
    /\ CollectIdle
    /\ DirInit

NextDir ==
    \/ Phase2Saves /\ UNCHANGED <<discoveryVars, chooseVars, structureVars, linkVars, fetchVars, extractVars, textVars, pdfVars, scraperVars, phaseVars, collectVars>>
    \/ Phase2Ends /\ UNCHANGED <<discoveryVars, chooseVars, structureVars, linkVars, fetchVars, extractVars, textVars, pdfVars, scraperVars, phaseVars, collectVars>>
    \/ Phase3Lists /\ UNCHANGED <<discoveryVars, chooseVars, structureVars, linkVars, fetchVars, extractVars, textVars, pdfVars, scraperVars, phaseVars, collectVars>>

SpecDir == InitDir /\ [][NextDir]_vars

-----------------------------------------------------------------------------
(* Discovery: the program list *)

\* the positions of links holding an absolute link with a positive program score
PositiveLinks(lnks) ==
    {i \in 1..Len(lnks) :
        StartsWith(lnks[i][1], <<"http">>) /\ score_link(lnks[i][1], lnks[i][2], "program") > 0}

\* C1: the record returned for a county holds between 0 and 25 program links,
\* and each of them, scored again from its url and link_text at program
\* level, scores above 0.
C1_ProgramsCappedAndPositive ==
    /\ Len(result.programs) >= 0
    /\ Len(result.programs) <= 25
    /\ \A i \in 1..Len(result.programs) :
         score_link(result.programs[i].url, result.programs[i].link_text, "program") > 0

\* a page with more than 25 positively scored links was ranked and 25 are returned
C1_Witness ==
    /\ pc = "done"
    /\ links # None
    /\ Cardinality({links[i][1] : i \in PositiveLinks(links)}) > 25
    /\ Len(result.programs) = 25

-----------------------------------------------------------------------------
(* Selection of the best link *)

\* the positions of the absolute links on the base's domain
Eligible ==
    {i \in 1..Len(cb_links) :
        StartsWith(cb_links[i][1], <<"http">>) /\ is_same_domain(cb_base, cb_links[i][1])}

\* the score of each eligible link
EligibleScores ==
    [i \in Eligible |-> score_link(cb_links[i][1], cb_links[i][2], cb_level)]

\* the positions holding the highest of the scores sc
Top(sc) == {i \in DOMAIN sc : \A j \in DOMAIN sc : sc[j] <= sc[i]}

Min(S) == CHOOSE x \in S : \A y \in S : x <= y

HealthLink == <<urljoin(cb_base, <<"/", "health">>),
                <<"Public", " ", "Health", " ", "Department">> >>
ContactLink == <<urljoin(cb_base, <<"/", "contact">>), <<"Contact", " ", "Us">> >>

\* C2: the link chosen is the first, in document order, of the eligible links
\* holding the highest eligible score (none when no link is eligible); at
\* department level "Public Health Department" -> /health wins over
\* "Contact Us" -> /contact in either order.
C2_FirstOfHighestScore ==
    cb_pc = "returned" => \A sc \in {EligibleScores} :
        /\ (DOMAIN sc = {}) => cb_best = None
        /\ (DOMAIN sc # {}) => cb_best = cb_links[Min(Top(sc))][1]
        /\ (cb_level = "dept" /\ cb_links \in {<<HealthLink, ContactLink>>,
                                                <<ContactLink, HealthLink>>})
              => cb_best = HealthLink[1]

\* two different eligible links tie at the highest score and the earlier is returned
C2_Witness ==
    /\ cb_pc = "returned"
    /\ \E sc \in {EligibleScores} : \E i, j \in Top(sc) :
         /\ i < j
         /\ cb_links[i][1] # cb_links[j][1]
         /\ cb_best = cb_links[i][1]

\* the host of a url: its netloc without userinfo and port
UrlHost(url) ==
    LET n == UrlNetloc(url)
        RECURSIVE lastAt(_)
        lastAt(i) == IF i = 0 \/ n[i] = "@" THEN i ELSE lastAt(i - 1)
        h == SubSeq(n, lastAt(Len(n)) + 1, Len(n))
    IN  SubSeq(h, 1, FirstIn(h, {":"}, 1) - 1)

\* the labels of a host, split at the dots
RECURSIVE Labels(_)
Labels(h) ==
    IF h = <<>> THEN << <<>> >>
    ELSE LET k == FirstIn(h, {"."}, 1)
         IN  IF k > Len(h) THEN <<h>>
             ELSE <<SubSeq(h, 1, k - 1)>> \o Labels(SubSeq(h, k + 1, Len(h)))

\* host c is host b or a subdomain of it
HostWithin(c, b) ==
    LET lc == Labels(c)
        lb == Labels(b)
    IN  Len(lc) >= Len(lb) /\ SubSeq(lc, Len(lc) - Len(lb) + 1, Len(lc)) = lb

\* C10: the url selected as department or section page lies on the base
\* page's host or on a subdomain of it, whatever the off-domain links score.
C10_SelectedOnBaseDomain ==
    (cb_pc = "returned" /\ cb_best # None) =>
        HostWithin(UrlHost(cb_best), UrlHost(cb_base))

\* a link on a proper subdomain is selected although an off-domain link
\* scores higher
C10_Witness ==
    /\ cb_pc = "returned"
    /\ cb_best # None
    /\ UrlHost(cb_best) # UrlHost(cb_base)
    /\ \E sc \in {EligibleScores} : \E i \in 1..Len(cb_links) :
         /\ StartsWith(cb_links[i][1], <<"http">>)
         /\ ~HostWithin(UrlHost(cb_links[i][1]), UrlHost(cb_base))
         /\ \A j \in DOMAIN sc :
               score_link(cb_links[i][1], cb_links[i][2], cb_level) > sc[j]

-----------------------------------------------------------------------------
(* Discovery: fallbacks *)

\* C8: whatever the three fetches give, the county is not abandoned: the
\* next step stays possible until the record is returned, the department
\* page fetched is the root when step 1 selected nothing, and the section
\* page fetched is the department page when step 2 selected nothing.
C8_FallbackNeverAborts ==
    /\ (pc # "done") => ENABLED Next
    /\ (Len(fetched) >= 1) => fetched[1].url = county_root_url
    /\ (Len(fetched) >= 2) =>
          fetched[2].url = IF result.health_dept_url = <<>> THEN county_root_url
                           ELSE result.health_dept_url
    /\ (Len(fetched) >= 3) =>
          fetched[3].url = IF result.maternal_section_url = <<>> THEN fetched[2].url
                           ELSE result.maternal_section_url
    /\ (Len(fetched) >= 1 /\ ~fetched[1].ok) => result.health_dept_url = <<>>
    /\ (Len(fetched) >= 2 /\ ~fetched[2].ok) => result.maternal_section_url = <<>>
    /\ (pc = "done") =>
          /\ Len(fetched) = 3
          /\ result.county_name = county_name
          /\ result.county_url = county_root_url

\* all three fetches failed and the record is returned, the root having
\* stood in for the department and the section page
C8_Witness ==
    /\ pc = "done"
    /\ \A i \in 1..3 : ~fetched[i].ok /\ fetched[i].url = county_root_url
    /\ result.health_dept_url = <<>>
    /\ result.maternal_section_url = <<>>

\* C9 as stated: a county whose root page was fetched has a non-empty
\* program list, and an empty list means the root fetch failed.
C9_EmptyOnlyIfRootUnreachable ==
    (pc = "done") => (result.programs = <<>> <=> ~fetched[1].ok)

\* C9 amended: the program list is empty exactly when the step-3 fetch of the
\* seed page fails or that page holds no absolute link scoring above 0 at
\* program level; so a root that fails at all three fetches gives an empty
\* list, and a fetched root alone does not give a non-empty one.
C9_EmptyIffNoPositiveSeedLink ==
    (pc = "done") =>
        /\ result.programs = <<>> <=>
              (~fetched[3].ok \/ (links # None /\ PositiveLinks(links) = {}))
        /\ (\A i \in 1..3 : ~fetched[i].ok) => result.programs = <<>>

\* the root and the seed page were fetched, the seed page holds links, none
\* of them scores above 0, and the list is empty
C9_Witness ==
    /\ pc = "done"
    /\ fetched[1].ok /\ fetched[3].ok
    /\ links # None /\ links # <<>>
    /\ result.programs = <<>>

-----------------------------------------------------------------------------
(* Structuring: the per-county accumulators *)

Counties == DOMAIN CALIFORNIA_COUNTIES

\* the values of the successful results returned for county c, in order
RECURSIVE ResultsFrom(_, _)
ResultsFrom(c, i) ==
    IF i > Len(returned) THEN <<>>
    ELSE IF returned[i][1] = c /\ HasResult(returned[i][2])
         THEN <<returned[i][2].value>> \o ResultsFrom(c, i + 1)
         ELSE ResultsFrom(c, i + 1)

ResultsFor(c) == ResultsFrom(c, 1)

\* the program lists of the results rs, one after the other
RECURSIVE AllPrograms(_)
AllPrograms(rs) ==
    IF rs = <<>> THEN <<>>
    ELSE (IF "programs" \in DOMAIN rs[1] THEN rs[1]["programs"] ELSE <<>>)
         \o AllPrograms(Tail(rs))

\* C3: a county's accumulator exists once a result was merged for it, and its
\* programs are the program lists of the county's results one after the
\* other in processing order: nothing removed, replaced or deduplicated.
C3_ProgramsAreConcatenation ==
    \A c \in Counties : \A rs \in {ResultsFor(c)} :
        IF rs = <<>> THEN c \notin DOMAIN county_to_data
        ELSE /\ c \in DOMAIN county_to_data
             /\ county_to_data[c].programs = AllPrograms(rs)

\* the same result was merged twice for a county and its programs stand twice
C3_Witness ==
    \E c \in DOMAIN county_to_data : \E rs \in {ResultsFor(c)} :
        /\ Len(rs) = 2
        /\ rs[1] = rs[2]
        /\ "programs" \in DOMAIN rs[1] /\ rs[1]["programs"] # <<>>
        /\ county_to_data[c].programs = rs[1]["programs"] \o rs[1]["programs"]

\* the value of an identity field in a result: the sentinel when it is omitted
FieldOf(res, key) == IF key \in DOMAIN res THEN res[key] ELSE <<"Not found">>

\* C4: name, email and phone of a county's health department are those of
\* the county's first successful result; later results change none of them.
C4_IdentityFromFirstResult ==
    \A c \in DOMAIN county_to_data : \A rs \in {ResultsFor(c)} :
        /\ rs # <<>>
        /\ county_to_data[c].health_department_name =
              FieldOf(rs[1], "health_department_name")
        /\ county_to_data[c].health_department_contact_email =
              FieldOf(rs[1], "health_department_contact_email")
        /\ county_to_data[c].health_department_contact_phone =
              FieldOf(rs[1], "health_department_contact_phone")

\* a later result carried another department name, email and phone and the
\* first result's stand
C4_Witness ==
    \E c \in DOMAIN county_to_data : \E rs \in {ResultsFor(c)} :
        /\ Len(rs) >= 2
        /\ \A key \in {"health_department_name", "health_department_contact_email",
                       "health_department_contact_phone"} :
             FieldOf(rs[2], key) # FieldOf(rs[1], key)
        /\ county_to_data[c].health_department_name =
              FieldOf(rs[1], "health_department_name")

\* the non-empty notes of the results rs, in order
RECURSIVE NotesOf(_)
NotesOf(rs) ==
    IF rs = <<>> THEN <<>>
    ELSE (IF "notes" \in DOMAIN rs[1] /\ rs[1]["notes"] # <<>>
          THEN <<rs[1]["notes"]>> ELSE <<>>) \o NotesOf(Tail(rs))

\* the strings ns joined with one space between consecutive ones
RECURSIVE JoinSpace(_)
JoinSpace(ns) ==
    IF ns = <<>> THEN <<>>
    ELSE IF Len(ns) = 1 THEN ns[1]
    ELSE ns[1] \o <<" ">> \o JoinSpace(Tail(ns))

\* s without its trailing blanks
RECURSIVE DropTrailing(_)
DropTrailing(s) ==
    IF s = <<>> THEN s
    ELSE IF s[Len(s)] \in {" ", "\n", "\t"} THEN DropTrailing(SubSeq(s, 1, Len(s) - 1))
    ELSE s

\* s without its leading blanks
RECURSIVE DropLeading(_)
DropLeading(s) ==
    IF s = <<>> THEN s
    ELSE IF s[1] \in {" ", "\n", "\t"} THEN DropLeading(Tail(s))
    ELSE s

\* the notes ns without their trailing blanks, the blank-only ones left out
RECURSIVE Trimmed(_)
Trimmed(ns) ==
    IF ns = <<>> THEN <<>>
    ELSE (IF DropTrailing(ns[1]) = <<>> THEN <<>> ELSE <<DropTrailing(ns[1])>>)
         \o Trimmed(Tail(ns))

\* C5 as stated: the notes field is exactly the non-empty notes joined with
\* single spaces, no notes text altered.
C5_NotesExactJoin ==
    \A c \in DOMAIN county_to_data :
        county_to_data[c].notes = JoinSpace(NotesOf(ResultsFor(c)))

\* C5 amended: the notes field is the non-empty notes joined with single
\* spaces after the whitespace at the end of each note and at the start of
\* the first is removed and whitespace-only notes are left out; results with
\* empty or missing notes do not count, so they leave the field as it was.
C5_NotesJoinedStripped ==
    \A c \in DOMAIN county_to_data :
        county_to_data[c].notes = DropLeading(JoinSpace(Trimmed(NotesOf(ResultsFor(c)))))

\* two notes were merged for a county, one of them with whitespace at an end
C5_Witness ==
    \E c \in DOMAIN county_to_data : \E ns \in {NotesOf(ResultsFor(c))} :
        /\ Len(ns) >= 2
        /\ \E k \in 1..Len(ns) : DropTrailing(ns[k]) # ns[k] /\ DropTrailing(ns[k]) # <<>>
        /\ county_to_data[c].notes # JoinSpace(ns)
        /\ Len(Trimmed(ns)) >= 2

-----------------------------------------------------------------------------
(* CSV emission *)

\* the county records a written file was produced from
RecordsOf(f) ==
    IF f = <<"California_County_Healthcare_Data.csv">>
    THEN [i \in 1..Len(order) |-> county_to_data[order[i]]]
    ELSE LET c == CHOOSE c \in DOMAIN county_to_data :
                    f = <<"California", "_">> \o safe_name(c) \o <<"_Healthcare_Data.csv">>
         IN  <<county_to_data[c]>>

\* the number of rows of a record
RowCount(rec) == IF Len(rec.programs) = 0 THEN 1 ELSE Len(rec.programs)

\* the number of rows in front of the rows of record i
RECURSIVE Offset(_, _)
Offset(recs, i) == IF i = 1 THEN 0 ELSE Offset(recs, i - 1) + RowCount(recs[i - 1])

SameCounty(row, rec) ==
    /\ row.State = rec.state
    /\ row.County_Name = rec.county_name
    /\ row.Health_Department_Name = rec.health_department_name
    /\ row.Health_Department_Contact_Email = rec.health_department_contact_email
    /\ row.Health_Department_Contact_Phone = rec.health_department_contact_phone

\* C6: a written CSV holds, record after record in input order, one
\* placeholder row for a record without programs and otherwise one row per
\* program in program order; the rows of a record share its State, County
\* and Health_Department columns.
C6_RowsPerCounty ==
    \A f \in DOMAIN csv_files : \A recs \in {RecordsOf(f)} : \A rows \in {csv_files[f]} :
        /\ Len(rows) = Offset(recs, Len(recs) + 1)
        /\ \A i \in 1..Len(recs) : \A j \in 1..RowCount(recs[i]) :
             LET row == rows[Offset(recs, i) + j]
             IN  /\ SameCounty(row, recs[i])
                 /\ IF recs[i].programs = <<>>
                    THEN row.Program_Name = <<"No programs found on main page">>
                    ELSE /\ "program_name" \in DOMAIN recs[i].programs[j]
                         /\ row.Program_Name = recs[i].programs[j]["program_name"]

\* the combined file holds a county without programs in front of a county
\* with several
C6_Witness ==
    /\ spc = "done"
    /\ <<"California_County_Healthcare_Data.csv">> \in DOMAIN csv_files
    /\ Len(order) = 2
    /\ county_to_data[order[1]].programs = <<>>
    /\ Len(county_to_data[order[2]].programs) >= 2
    /\ Len(csv_files[<<"California_County_Healthcare_Data.csv">>]) =
          1 + Len(county_to_data[order[2]].programs)

\* the counties whose raw pages the loop has handled
Processed == {files[k].dir : k \in 1..(fi - 1)}

RowsOf(f) == {csv_files[f][k] : k \in 1..Len(csv_files[f])}

CountiesInCsv == UNION {{r.County_Name : r \in RowsOf(f)} : f \in DOMAIN csv_files}

\* C7 as stated: every county whose pages were processed is in a CSV row,
\* also when each of its extractions failed.
C7_EveryProcessedCountyInCsv ==
    (spc = "done") => Processed \subseteq CountiesInCsv

\* C7 amended: the counties in the CSV rows are those with at least one
\* successful result, also when their results carried no program; a county
\* whose every extraction failed has no accumulator and no row.
C7_CountiesWithResultInCsv ==
    (spc = "done") =>
        CountiesInCsv = {c \in Counties : ResultsFor(c) # <<>>}

\* one county is in the CSV with the placeholder row only, the other was
\* processed without any result and is in no row
C7_Witness ==
    /\ spc = "done"
    /\ \E c \in CountiesInCsv : AllPrograms(ResultsFor(c)) = <<>>
    /\ \E c \in Processed : c \notin CountiesInCsv

-----------------------------------------------------------------------------
(* Same-domain test and link score *)

\* the registrable part of a host: its last two labels
SecondLevel(h) ==
    LET l == Labels(h)
    IN  IF Len(l) <= 2 THEN l ELSE SubSeq(l, Len(l) - 1, Len(l))

\* C11: an absolute candidate whose host shares the base url's second-level
\* domain counts as same-domain, also on another subdomain than the base
\* (base www.acgov.org, candidate health.acgov.org).
C11_SecondLevelDomainIsSameDomain ==
    ("same" \in lk_pc /\ StartsWith(lk_href, <<"http">>)
        /\ SecondLevel(UrlHost(lk_href)) = SecondLevel(UrlHost(lk_base)))
    => lk_same = TRUE

\* the path of a url: after the netloc, up to the query or fragment
UrlPath(url) ==
    LET p == UrlFromPath(url)
    IN  SubSeq(p, 1, FirstIn(p, {"?", "#"}, 1) - 1)

\* the keyword list and the path segments of a level, with their bonuses
LevelKeywords(level) ==
    CASE level = "dept" -> DEPT_KEYWORDS
      [] level = "section" -> SECTION_KEYWORDS
      [] level = "program" -> PROGRAM_KEYWORDS

LevelPaths(level) ==
    CASE level = "dept" -> DEPT_PATHS
      [] level = "section" -> SECTION_PATHS
      [] level = "program" -> PROGRAM_PATHS

KeywordBonus(level) == IF level = "program" THEN 2 ELSE 3
PathBonus(level) == IF level = "program" THEN 1 ELSE 2

\* the lowercased href or the lowercased text holds a keyword of the level
KeywordMatch(href, text, level) ==
    contains_any(LevelKeywords(level), lower(text), lower(href))

\* the lowercased href holds a path segment of the level, anywhere
SegmentMatch(href, level) == any_in(LevelPaths(level), lower(href))

\* the lowercased href holds the name of a social-media host, anywhere
SocialMatch(href) == any_in(SOCIAL_HOSTS, lower(href))

\* the host of the url is a social-media host or a subdomain of one
SocialHost(href) ==
    \E k \in 1..Len(SOCIAL_HOSTS) : HostWithin(lower(UrlHost(href)), SOCIAL_HOSTS[k])

\* C12: for a link carrying no social-media penalty the score is the keyword
\* bonus (3, 3, 2: the lowercased href or text holds a keyword of the level)
\* plus the path bonus (2, 2, 1: the PATH of the url, not its scheme, host or
\* query, holds a path segment of the level).
C12_ScoreIsKeywordPlusPathBonus ==
    ("score" \in lk_pc /\ ~SocialMatch(lk_href)) =>
        lk_score =
            (IF KeywordMatch(lk_href, lk_text, lk_level)
                THEN KeywordBonus(lk_level) ELSE 0)
          + (IF any_in(LevelPaths(lk_level), lower(UrlPath(lk_href)))
                THEN PathBonus(lk_level) ELSE 0)

\* C13: score_link subtracts 3 exactly when the DOMAIN of the link is one of
\* the social-media hosts, at every level; a link on another domain is never
\* penalised.
C13_PenaltyIffSocialDomain ==
    "score" \in lk_pc =>
        lk_score =
            (IF KeywordMatch(lk_href, lk_text, lk_level)
                THEN KeywordBonus(lk_level) ELSE 0)
          + (IF SegmentMatch(lk_href, lk_level) THEN PathBonus(lk_level) ELSE 0)
          - (IF SocialHost(lk_href) THEN 3 ELSE 0)

\* C14: at every level, of two links with the same keyword match and the same
\* path match, the one on a social-media host scores exactly 3 less than the
\* one on a non-social host.
C14_SocialScoresThreeLess ==
    "score" \in lk_pc =>
        \A l \in LinkPool :
            ( /\ SocialHost(lk_href)
              /\ ~SocialHost(l[1])
              /\ KeywordMatch(lk_href, lk_text, lk_level)
                    = KeywordMatch(l[1], l[2], lk_level)
              /\ SegmentMatch(lk_href, lk_level) = SegmentMatch(l[1], lk_level) )
            => lk_score = score_link(l[1], l[2], lk_level) - 3

-----------------------------------------------------------------------------
(* Discovery: the order of the program list *)

\* the program score of each entry of the returned list
ProgramScores ==
    [i \in 1..Len(result.programs) |->
        score_link(result.programs[i].url, result.programs[i].link_text, "program")]

\* the position, in document order, of the first anchor an entry may stem from
AnchorOf ==
    [i \in 1..Len(result.programs) |->
        Min({k \in 1..Len(links) :
                links[k] = <<result.programs[i].url, result.programs[i].link_text>>})]

\* C15: the program list comes sorted by non-increasing program score, holds
\* no url twice, and entries of equal score stand in the document order of
\* their anchors.
C15_SortedStableDistinct ==
    (pc = "done" /\ links # None) =>
        \A sc \in {ProgramScores} : \A pos \in {AnchorOf} :
            \A i, j \in 1..Len(result.programs) :
                i < j =>
                    /\ sc[i] >= sc[j]
                    /\ result.programs[i].url # result.programs[j].url
                    /\ sc[i] = sc[j] => pos[i] < pos[j]

\* a list the sort has reordered, holding a tie
C15_Witness ==
    /\ pc = "done"
    /\ links # None
    /\ \E i, j \in 1..Len(result.programs) :
        /\ i < j
        /\ ProgramScores[i] = ProgramScores[j]
        /\ AnchorOf[i] < AnchorOf[j]
    /\ \E i, j \in 1..Len(result.programs) :
        /\ i < j
        /\ ProgramScores[i] > ProgramScores[j]
        /\ AnchorOf[i] > AnchorOf[j]
    /\ \E k \in 1..Len(links) :
        /\ StartsWith(links[k][1], <<"http">>)
        /\ score_link(links[k][1], links[k][2], "program") > 0
        /\ \A i \in 1..Len(result.programs) : AnchorOf[i] # k

-----------------------------------------------------------------------------
(* Structuring: pages without a result *)

\* C16: a page for which the collaborator yields no result (no credential, an
\* exception, an empty, non-JSON or unparseable response: None) leaves the
\* per-county accumulators exactly as they were.
C16_NoResultLeavesAccumulators ==
    [][(/\ Len(returned') = Len(returned) + 1
        /\ ~returned'[Len(returned')][2].ok)
       => (county_to_data' = county_to_data /\ order' = order)]_vars

\* a page without a result was skipped while a county's accumulator held
\* programs and notes
C16_Witness ==
    /\ returned # <<>>
    /\ ~returned[Len(returned)][2].ok
    /\ \E c \in DOMAIN county_to_data :
        /\ county_to_data[c].programs # <<>>
        /\ county_to_data[c].notes # <<>>
        /\ returned[Len(returned)][1] = c

-----------------------------------------------------------------------------
(* Structuring: the loop reaches its end *)

\* C17: whatever the collaborator answers, the structuring loop attempts
\* every raw page once and reaches its end: it is never left with a page
\* still to attempt.
C17_LoopAttemptsEveryPage ==
    spc # "loop" => fi = Len(files) + 1

-----------------------------------------------------------------------------
(* fetch_soup *)

-----------------------------------------------------------------------------
(* Extraction: pages that are not saved *)

\* C19: when the candidate url is empty or its fetch fails,
\* process_program_page returns None and no raw-page file is created or
\* modified; a file is written only after a successful fetch.
C19_NoFileWithoutFetch ==
    [][Len(x_log') = Len(x_log) + 1 =>
        \A e \in {x_log'[Len(x_log')]} :
            /\ (e.url = <<>> \/ ~e.ok) => (e.out = None /\ raw_files' = raw_files)
            /\ raw_files' # raw_files => e.ok]_vars

\* a page saved earlier is fetched again, the fetch fails, and the file stays;
\* a candidate without url came before
C19_Witness ==
    /\ Len(x_log) = 3
    /\ x_log[1].url = <<>> /\ x_log[1].out = None
    /\ x_log[2].ok /\ x_log[2].out \in DOMAIN raw_files
    /\ x_log[3].url = x_log[2].url /\ x_log[3].fetched /\ ~x_log[3].ok
    /\ x_log[3].out = None

-----------------------------------------------------------------------------
(* Extraction: the truncation *)

\* C20: the truncation is idempotent for a text of any length, below, at or
\* above the budget of 20000 characters: applied to its own output, also
\* one ending in the marker, it gives that output again.
C20_TruncationIdempotent ==
    tx_pc = "again" => tx_again = tx_out

\* a text over the budget that ended in the marker was cut, marked and
\* truncated once more
C20_Witness ==
    /\ tx_pc = "again"
    /\ Len(tx_text) > MAX_TEXT_CHARS
    /\ EndsWith(tx_text, TRUNCATION_MARKER)
    /\ tx_out # tx_text
    /\ Len(tx_out) = MAX_TEXT_CHARS + Len(TRUNCATION_MARKER)
    /\ EndsWith(tx_out, TRUNCATION_MARKER)

-----------------------------------------------------------------------------
(* Extraction: the pdf links *)

\* the resolved urls of the page's pdf anchors, in document order: the anchors
\* with a href whose lowercased href or text holds "pdf"
PdfUrls ==
    LET a == pd_soup.anchors
        RECURSIVE walk(_)
        walk(i) ==
            IF i > Len(a) THEN <<>>
            ELSE IF a[i].href # <<>>
                    /\ (Contains(<<"pdf">>, lower(a[i].href))
                        \/ Contains(<<"pdf">>, lower(strip(a[i].text))))
            THEN <<urljoin(pd_base, a[i].href)>> \o walk(i + 1)
            ELSE walk(i + 1)
    IN  walk(1)

-----------------------------------------------------------------------------
(* Extraction: where a raw page is saved *)

\* the positions of the candidates handled so far that were saved
Saved == {i \in 1..Len(x_log) : x_log[i].out # None}

\* the name a candidate's file is called after
NameOf(program) ==
    IF Get(program, "name", <<>>) # <<>> THEN program["name"]
    ELSE IF Get(program, "link_text", <<>>) # <<>> THEN program["link_text"]
    ELSE <<"program">>

-----------------------------------------------------------------------------
(* Structuring: fields the collaborator omits *)

Sentinels == {<<"Not found">>, <<"Not specified">>}

\* the fields of a program and the CSV columns they go to
ProgramColumns == {
    <<"program_name", "Program_Name">>,
    <<"program_category", "Program_Category">>,
    <<"program_description", "Program_Description">>,
    <<"target_population", "Target_Population">>,
    <<"eligibility_requirements", "Eligibility_Requirements">>,
    <<"application_process", "Application_Process">>,
    <<"required_documentation", "Required_Documentation">>,
    <<"financial_assistance_available", "Financial_Assistance_Available">>,
    <<"program_website_url", "Program_Website_URL">> }

IdentityColumns == {
    <<"health_department_name", "Health_Department_Name">>,
    <<"health_department_contact_email", "Health_Department_Contact_Email">>,
    <<"health_department_contact_phone", "Health_Department_Contact_Phone">> }

\* C23: a field the collaborator's result omits (an identity field of the
\* department, in the county's first result, or any field of a program) is
\* carried in the county record and in the CSV row as the sentinel
\* "Not found" or "Not specified", never as an empty value.
C23_OmittedFieldsAreSentinels ==
    spc = "done" =>
        \A c \in DOMAIN county_to_data :
            \A rows \in {csv_files[CountyCsv(c)]} : \A rs \in {ResultsFor(c)} :
                /\ \A f \in IdentityColumns :
                    f[1] \notin DOMAIN rs[1] =>
                        /\ county_to_data[c][f[1]] \in Sentinels
                        /\ \A j \in 1..Len(rows) : rows[j][f[2]] \in Sentinels
                /\ \A j \in 1..Len(county_to_data[c].programs) :
                    \A f \in ProgramColumns :
                        f[1] \notin DOMAIN county_to_data[c].programs[j] =>
                            rows[j][f[2]] \in Sentinels

-----------------------------------------------------------------------------
(* Pacing of the network calls *)

NetworkCalls == {RequestsGet, CollaboratorCall}

\* C24: in the county loop of scraper.py every network call, whether the page
\* fetch or the collaborator call, is followed by a sleep before the next
\* network call: no two network calls stand next to each other in the trace
C24_SleepBetweenNetworkCalls ==
    \A k \in 1..(Len(sm_trace) - 1) :
        ~(sm_trace[k] \in NetworkCalls /\ sm_trace[k + 1] \in NetworkCalls)

-----------------------------------------------------------------------------
(* The phase mains without their input *)

\* the lines that tell the user to run the phase before
RunPrecedingPhase == {RunDiscovery, NoRawPages}

\* C25: with the discovery file missing or unreadable, scraper_extract.main
\* and scraper_structure.main make no page fetch and no collaborator call,
\* save and write nothing, and once they have looked for the file they have
\* stopped with an instruction to run the preceding phase on the console
C25_NoDiscoveryFileStopsPhase ==
    (ph_main \in {"extract_main", "structure_main"} /\ ph_disc \in {"missing", "unreadable"})
        => /\ ph_calls = 0
           /\ ph_records = 0
           /\ ~ph_written
           /\ ph_pc \in {"start", "done"}
           /\ (ph_pc = "done") =>
                \E j \in DOMAIN ph_console : ph_console[j].text \in RunPrecedingPhase

\* C26: every item a phase loop has gone past has exactly one line about it
\* on the console; none is passed over without a report
C26_OneReportPerItem ==
    \A k \in 1..(ph_i - 1) :
        Cardinality({j \in DOMAIN ph_console : ph_console[j].item = k}) = 1

-----------------------------------------------------------------------------
(* Discovery: which links become program candidates *)

\* the links of the seed page, in document order
SeedLinks == extract_links(cp_soup, cp_seed)

ProgramScore(l) == score_link(l[1], l[2], "program")

\* the positions of the absolute links of positive program score
Positive ==
    {k \in 1..Len(SeedLinks) :
        StartsWith(SeedLinks[k][1], <<"http">>) /\ ProgramScore(SeedLinks[k]) > 0}

ReturnedUrls == {cp_out[i].url : i \in 1..Len(cp_out)}

\* C27: the list collect_program_links returns holds min(25, number of distinct
\* urls of positively scored absolute anchors) entries, each the url of such
\* an anchor; no url left out has an anchor scoring above a returned entry;
\* and each entry carries the text of an occurrence of its url that no other
\* occurrence outscores
C27_First25DistinctPositive ==
    (cp_pc = "returned" /\ cp_soup.ok) =>
        \A links_ \in {SeedLinks} : \A pos \in {Positive} :
            LET urls == {links_[k][1] : k \in pos}
                sc == [k \in pos |-> ProgramScore(links_[k])]
                out_sc == [i \in 1..Len(cp_out) |->
                              ProgramScore(<<cp_out[i].url, cp_out[i].link_text>>)]
            IN  /\ Len(cp_out) = IF Cardinality(urls) < 25 THEN Cardinality(urls) ELSE 25
                /\ \A i \in 1..Len(cp_out) :
                    /\ \E k \in pos : links_[k] = <<cp_out[i].url, cp_out[i].link_text>>
                    /\ cp_out[i].name = cp_out[i].link_text
                    /\ \A k \in pos : links_[k][1] = cp_out[i].url => sc[k] <= out_sc[i]
                    /\ \A k \in pos : links_[k][1] \notin ReturnedUrls => sc[k] <= out_sc[i]

\* more than 25 distinct urls qualify, one left out; a returned url stands on
\* two anchors, the later one scoring higher, and carries the later text
C27_Witness ==
    /\ cp_pc = "returned"
    /\ cp_soup.ok
    /\ Len(cp_out) = 25
    /\ \E k \in Positive : SeedLinks[k][1] \notin ReturnedUrls
    /\ \E i \in 1..Len(cp_out) : \E j, k \in Positive :
        /\ j < k
        /\ SeedLinks[j][1] = cp_out[i].url
        /\ SeedLinks[k][1] = cp_out[i].url
        /\ ProgramScore(SeedLinks[j]) < ProgramScore(SeedLinks[k])
        /\ cp_out[i].link_text = SeedLinks[k][2]

\* C29: no entry of the list collect_program_links returns has a url holding
\* the name of a social-media host, in whatever case and whether as the
\* url's host or elsewhere in it
C29_NoSocialCandidate ==
    (cp_pc = "returned") =>
        \A i \in 1..Len(cp_out) : ~SocialMatch(cp_out[i].url) /\ ~SocialHost(cp_out[i].url)

\* the seed page links to a social-media host under a program keyword and a
\* program path, and other links of the page are returned
C29_Witness ==
    /\ cp_pc = "returned"
    /\ cp_out # <<>>
    /\ \E k \in 1..Len(SeedLinks) :
        /\ SocialHost(SeedLinks[k][1])
        /\ KeywordMatch(SeedLinks[k][1], SeedLinks[k][2], "program")
        /\ SegmentMatch(SeedLinks[k][1], "program")
        /\ ProgramScore(SeedLinks[k]) = 0

-----------------------------------------------------------------------------
(* Discovery: when a step falls back *)

\* the positions of the absolute links on the base url's second-level domain
SameDomainLinks ==
    {k \in 1..Len(cb_links) :
        /\ StartsWith(cb_links[k][1], <<"http">>)
        /\ SecondLevel(UrlHost(cb_links[k][1])) = SecondLevel(UrlHost(cb_base))}

\* C28: on a fetched page the selection of step 1 (and of step 2) yields
\* nothing, so that the step falls back to its base page, exactly when the
\* page has no absolute same-domain anchor; otherwise one of those anchors is
\* selected, whatever its score
C28_FallbackIffNoSameDomainAnchor ==
    (cb_pc = "returned") =>
        /\ (cb_best = None) <=> (SameDomainLinks = {})
        /\ (cb_best # None) => \E k \in SameDomainLinks : cb_links[k][1] = cb_best

-----------------------------------------------------------------------------
(* Pipeline: the raw directory of a county *)

\* C30: for every county name of the county directory, the directory
\* run_phase_3 looks in is the one save_raw wrote the county's pages to, and
\* every page Phase 2 saved for the county is among the files Phase 3 reads
C30_Phase3ReadsWhatPhase2Saved ==
    (dr_pc = "done") =>
        /\ \A p \in DOMAIN dr_store : dirname(p) = dr_dir
        /\ DOMAIN dr_store \subseteq dr_read

\* a county whose name has capitals and blanks, with two pages saved and read
C30_Witness ==
    /\ dr_pc = "done"
    /\ \E i, j \in 1..Len(dr_county) : dr_county[i] = " " /\ dr_county[j] # Lower(dr_county[j])
    /\ Cardinality(DOMAIN dr_store) = 2
    /\ dr_read = DOMAIN dr_store

=============================================================================
